---- MODULE Spec2Model ----
(***************************************************************************)
(* The CSV profiler page (DataProfilerApp) as a state machine.             *)
(*                                                                         *)
(* A string is a sequence of one-character strings, a row is a sequence    *)
(* of <<key, value>> fields in insertion order (a JavaScript object with   *)
(* string values), a table is a sequence of rows.                          *)
(***************************************************************************)
EXTENDS Integers, Sequences, FiniteSets, TLC

\* ------------------------------------------------------------------------
\* JavaScript strings and objects
\* ------------------------------------------------------------------------

\* The value of row[col] when the row has no such key.
Undefined == <<"<undefined>">>

\* String(v): a string is itself, undefined is the text "undefined".
String(v) ==
    IF v = Undefined THEN <<"u", "n", "d", "e", "f", "i", "n", "e", "d">> ELSE v

\* A value used as a condition: undefined and "" are falsy.
Truthy(v) == v # Undefined /\ v # <<>>

WhiteSpace == {" ", "\t", "\n"}

RECURSIVE TrimStart(_)
TrimStart(s) ==
    IF s # <<>> /\ Head(s) \in WhiteSpace THEN TrimStart(Tail(s)) ELSE s

RECURSIVE TrimEnd(_)
TrimEnd(s) ==
    IF s # <<>> /\ s[Len(s)] \in WhiteSpace
    THEN TrimEnd(SubSeq(s, 1, Len(s) - 1))
    ELSE s

\* String.prototype.trim
Trim(s) == TrimEnd(TrimStart(s))

\* s.indexOf(t) === 0
StartsWith(s, t) == Len(t) <= Len(s) /\ SubSeq(s, 1, Len(t)) = t

Drop(s, n) == SubSeq(s, n + 1, Len(s))

\* s.indexOf(t), 1-based; 0 when t does not occur.  t is not empty.
RECURSIVE IndexFrom(_, _, _)
IndexFrom(s, t, i) ==
    IF i + Len(t) - 1 > Len(s) THEN 0
    ELSE IF SubSeq(s, i, i + Len(t) - 1) = t THEN i
    ELSE IndexFrom(s, t, i + 1)

IndexOf(s, t) == IndexFrom(s, t, 1)

\* s.split(delim)[0], delim not empty: the text before the first delimiter.
SplitHead(s, delim) ==
    LET i == IndexOf(s, delim) IN IF i = 0 THEN s ELSE SubSeq(s, 1, i - 1)

\* The second part alone: the text between the first and the second delimiter.
SplitSecondPart(s, delim) ==
    LET i == IndexOf(s, delim)
    IN  IF i = 0 THEN <<>> ELSE SplitHead(Drop(s, i + Len(delim) - 1), delim)

\* s.split(delim).slice(1).join(delim), delim not empty: the text after the
\* first delimiter (splitting on every occurrence and rejoining the tail with
\* the same delimiter gives the tail back).
SplitRest(s, delim) ==
    LET i == IndexOf(s, delim) IN IF i = 0 THEN <<>> ELSE Drop(s, i + Len(delim) - 1)

\* Rows -------------------------------------------------------------------

Field(k, v) == <<k, v>>

\* Object.keys(row)
RECURSIVE Keys(_)
Keys(row) == IF row = <<>> THEN <<>> ELSE <<Head(row)[1]>> \o Keys(Tail(row))

HasKey(row, k) == \E i \in 1..Len(row) : row[i][1] = k

\* row[k]
Get(row, k) ==
    IF HasKey(row, k)
    THEN row[CHOOSE i \in 1..Len(row) : row[i][1] = k][2]
    ELSE Undefined

\* { ...row, [k]: v }: an existing key keeps its place, a new one is appended.
Put(row, k, v) ==
    IF HasKey(row, k)
    THEN [i \in 1..Len(row) |-> IF row[i][1] = k THEN Field(k, v) ELSE row[i]]
    ELSE Append(row, Field(k, v))

\* Array.prototype.reverse
Reverse(s) == [i \in 1..Len(s) |-> s[Len(s) + 1 - i]]

\* Array.prototype.slice(-n)
SliceLast(s, n) == IF Len(s) <= n THEN s ELSE SubSeq(s, Len(s) - n + 1, Len(s))

\* JSON ----------------------------------------------------------------------

\* The body of a JSON string: a quote and a backslash are escaped.
RECURSIVE Escape(_)
Escape(s) ==
    IF s = <<>> THEN <<>>
    ELSE (IF Head(s) \in {"\"", "\\"} THEN <<"\\", Head(s)>> ELSE <<Head(s)>>)
            \o Escape(Tail(s))

RECURSIVE Unescape(_)
Unescape(s) ==
    IF s = <<>> THEN <<>>
    ELSE IF Head(s) = "\\" /\ Len(s) > 1 THEN <<s[2]>> \o Unescape(Tail(Tail(s)))
    ELSE <<Head(s)>> \o Unescape(Tail(s))

Quote(s) == <<"\"">> \o Escape(s) \o <<"\"">>
Unquote(q) == Unescape(SubSeq(q, 2, Len(q) - 1))

\* JSON.stringify of a table: an array of objects, each key with its value as
\* a JSON string, in insertion order.
JSONstringify(table) ==
    [i \in 1..Len(table) |->
        [j \in 1..Len(table[i]) |-> Field(table[i][j][1], Quote(table[i][j][2]))]]

\* JSON.parse of such a text.
JSONparse(text) ==
    [i \in 1..Len(text) |->
        [j \in 1..Len(text[i]) |-> Field(text[i][j][1], Unquote(text[i][j][2]))]]

\* ------------------------------------------------------------------------
\* Number(string)
\* ------------------------------------------------------------------------

Digits == <<"0", "1", "2", "3", "4", "5", "6", "7", "8", "9">>

IsDigit(c) == \E i \in 1..10 : Digits[i] = c

DigitVal(c) == (CHOOSE i \in 1..10 : Digits[i] = c) - 1

\* The number of decimal digits s starts with.
RECURSIVE LeadingDigits(_)
LeadingDigits(s) ==
    IF s # <<>> /\ IsDigit(Head(s)) THEN 1 + LeadingDigits(Tail(s)) ELSE 0

AllIn(s, set) == \A i \in 1..Len(s) : s[i] \in set

HexDigits ==
    {Digits[i] : i \in 1..10} \cup {"a", "b", "c", "d", "e", "f", "A", "B", "C", "D", "E", "F"}

\* An optional sign is dropped.
StripSign(s) == IF s # <<>> /\ Head(s) \in {"+", "-"} THEN Tail(s) ELSE s

IsDecimalDigits(u) == u # <<>> /\ LeadingDigits(u) = Len(u)

\* ExponentPart, or nothing.
IsExponentOrEmpty(r) ==
    \/ r = <<>>
    \/ Head(r) \in {"e", "E"} /\ IsDecimalDigits(StripSign(Tail(r)))

\* After n integer digits and a point come m fraction digits.
AfterPoint(n, m, r) == n + m >= 1 /\ IsExponentOrEmpty(Drop(r, 1 + m))

\* r is what follows the n integer digits.
AfterInteger(n, r) ==
    IF r # <<>> /\ Head(r) = "."
    THEN AfterPoint(n, LeadingDigits(Tail(r)), r)
    ELSE n >= 1 /\ IsExponentOrEmpty(r)

DecimalFrom(s, n) == AfterInteger(n, Drop(s, n))

\* StrUnsignedDecimalLiteral of the StringToNumber grammar.
IsUnsignedDecimal(s) ==
    \/ s = <<"I", "n", "f", "i", "n", "i", "t", "y">>
    \/ DecimalFrom(s, LeadingDigits(s))

\* 0x.., 0o.., 0b.. (no sign allowed).
IsNonDecimalInteger(s) ==
    /\ Len(s) >= 3
    /\ s[1] = "0"
    /\ \/ s[2] \in {"x", "X"} /\ AllIn(Drop(s, 2), HexDigits)
       \/ s[2] \in {"o", "O"} /\ AllIn(Drop(s, 2), {"0", "1", "2", "3", "4", "5", "6", "7"})
       \/ s[2] \in {"b", "B"} /\ AllIn(Drop(s, 2), {"0", "1"})

\* The trimmed text converts to a number (the empty text converts to 0).
IsNumberText(s) == s = <<>> \/ IsUnsignedDecimal(StripSign(s)) \/ IsNonDecimalInteger(s)

\* isNaN(Number(v)) for a string v: surrounding white space is ignored.
NumberIsNaN(v) == ~ IsNumberText(Trim(v))

\* ------------------------------------------------------------------------
\* date-fns parse / isValid / format, for the layouts the page uses
\* ------------------------------------------------------------------------

\* A layout is its sequence of tokens: a pattern (yyyy, MM, dd, MMM) or one
\* literal character.
LayoutISO == <<"yyyy", "-", "MM", "-", "dd">>
LayoutEU == <<"dd", "/", "MM", "/", "yyyy">>
LayoutUS == <<"MM", "/", "dd", "/", "yyyy">>
LayoutHyphen == <<"dd", "-", "MM", "-", "yyyy">>
LayoutDot == <<"dd", ".", "MM", ".", "yyyy">>
LayoutSlashYMD == <<"yyyy", "/", "MM", "/", "dd">>
LayoutVerbose == <<"MMM", " ", "dd", ",", " ", "yyyy">>

\* The layouts with the month-first slash layout tried before the day-first one.
formatsMonthFirst ==
    <<LayoutISO, LayoutUS, LayoutEU, LayoutHyphen, LayoutDot, LayoutSlashYMD, LayoutVerbose>>

formatsToTry ==
    <<LayoutISO, LayoutEU, LayoutUS, LayoutHyphen, LayoutDot, LayoutSlashYMD, LayoutVerbose>>

\* The <option> values of the target format select.
TargetFormats == {LayoutISO, LayoutUS, LayoutEU, LayoutHyphen, LayoutVerbose}

MonthNames ==
    << <<"J", "a", "n">>, <<"F", "e", "b">>, <<"M", "a", "r">>, <<"A", "p", "r">>,
       <<"M", "a", "y">>, <<"J", "u", "n">>, <<"J", "u", "l">>, <<"A", "u", "g">>,
       <<"S", "e", "p">>, <<"O", "c", "t">>, <<"N", "o", "v">>, <<"D", "e", "c">> >>

UpperCase ==
    <<"A", "B", "C", "D", "E", "F", "G", "H", "I", "J", "K", "L", "M",
      "N", "O", "P", "Q", "R", "S", "T", "U", "V", "W", "X", "Y", "Z">>
LowerCase ==
    <<"a", "b", "c", "d", "e", "f", "g", "h", "i", "j", "k", "l", "m",
      "n", "o", "p", "q", "r", "s", "t", "u", "v", "w", "x", "y", "z">>

ToLowerChar(c) ==
    IF \E i \in 1..26 : UpperCase[i] = c
    THEN LowerCase[CHOOSE i \in 1..26 : UpperCase[i] = c]
    ELSE c

\* String.prototype.toLowerCase
ToLowerCase(s) == [i \in 1..Len(s) |-> ToLowerChar(s[i])]

\* The narrow month pattern /^[jfmasond]/i and the first narrow parse pattern
\* that accepts the letter.
NarrowMonth(c) ==
    CASE c = "j" -> 1 [] c = "f" -> 2 [] c = "m" -> 3 [] c = "a" -> 4
      [] c = "s" -> 9 [] c = "o" -> 10 [] c = "n" -> 11 [] c = "d" -> 12
      [] OTHER -> 0

Failed == [ok |-> FALSE, rest |-> <<>>, val |-> 0]

\* The number the first k characters of s, all digits, write.
DigitsValue(s, k) ==
    LET Value[i \in 0..k] == IF i = 0 THEN 0 ELSE Value[i - 1] * 10 + DigitVal(s[i])
    IN  Value[k]

TakeDigits(s, k) ==
    IF k = 0 THEN Failed ELSE [ok |-> TRUE, rest |-> Drop(s, k), val |-> DigitsValue(s, k)]

Min(a, b) == IF a < b THEN a ELSE b

\* parseNDigits(n, s): /^\d{1,n}/, as many digits as there are, up to n.
ParseNDigits(n, s) == TakeDigits(s, Min(LeadingDigits(s), n))

\* The months whose abbreviated name the lower-cased text starts with.
AbbreviatedMonths(low) == {i \in 1..12 : StartsWith(low, ToLowerCase(MonthNames[i]))}

MatchMonth(s, low) ==
    IF AbbreviatedMonths(low) # {}
    THEN [ok |-> TRUE, rest |-> Drop(s, 3), val |-> CHOOSE i \in AbbreviatedMonths(low) : TRUE]
    ELSE IF low # <<>> /\ NarrowMonth(low[1]) # 0
    THEN [ok |-> TRUE, rest |-> Drop(s, 1), val |-> NarrowMonth(low[1])]
    ELSE Failed

\* The MMM parser: an abbreviated month name in any case, else one narrow letter.
ParseMonthName(s) == MatchMonth(s, ToLowerCase(s))

isLeapYearIndex(y) == y % 400 = 0 \/ (y % 4 = 0 /\ y % 100 # 0)

DaysInMonth(y, m) ==
    IF m = 2 THEN (IF isLeapYearIndex(y) THEN 29 ELSE 28)
    ELSE IF m \in {4, 6, 9, 11} THEN 30 ELSE 31

InvalidDate == [valid |-> FALSE, y |-> 0, m |-> 0, d |-> 0]

\* One token against the text: a pattern consumes its match, a literal must
\* be the next character.
MatchToken(tok, s) ==
    CASE tok = "yyyy" -> ParseNDigits(4, s)
      [] tok \in {"MM", "dd"} -> ParseNDigits(2, s)
      [] tok = "MMM" -> ParseMonthName(s)
      [] OTHER -> IF s # <<>> /\ Head(s) = tok
                  THEN [ok |-> TRUE, rest |-> Tail(s), val |-> 0]
                  ELSE Failed

\* The date fields after the token's value is stored.
Store(tok, acc, val) ==
    CASE tok = "yyyy" -> [acc EXCEPT !.y = val]
      [] tok \in {"MM", "MMM"} -> [acc EXCEPT !.m = val]
      [] tok = "dd" -> [acc EXCEPT !.d = val]
      [] OTHER -> acc

\* Run the layout's tokens over the text, left to right.
RECURSIVE RunTokens(_, _, _)
RECURSIVE RunRest(_, _, _)
RunRest(tokens, r, acc) ==
    IF r.ok
    THEN RunTokens(Tail(tokens), r.rest, Store(Head(tokens), acc, r.val))
    ELSE InvalidDate

RunTokens(tokens, s, acc) ==
    IF tokens = <<>>
    THEN [acc EXCEPT !.valid = AllIn(s, WhiteSpace)]
    ELSE RunRest(tokens, MatchToken(Head(tokens), s), acc)

\* The setters validate in the order year, month, day.
Validated(p) ==
    IF /\ p.valid
       /\ p.y > 0
       /\ p.m \in 1..12
       /\ p.d >= 1 /\ p.d <= DaysInMonth(p.y, p.m)
    THEN p
    ELSE InvalidDate

\* parse(text, layout, new Date()): the date, or Invalid Date.
parse(s, layout) ==
    Validated(RunTokens(layout, s, [valid |-> TRUE, y |-> 0, m |-> 0, d |-> 0]))

isValid(date) == date.valid

YearLow == 1900
YearHigh == 2100

Null == [valid |-> FALSE, y |-> -1, m |-> -1, d |-> -1]

\* The loop of parseDate over formatsToTry, from the i-th format on.
RECURSIVE TryFormats(_, _)
RECURSIVE AcceptOrTryNext(_, _, _)
AcceptOrTryNext(parsed, cleanVal, i) ==
    IF isValid(parsed) /\ parsed.y > YearLow /\ parsed.y < YearHigh
    THEN parsed
    ELSE TryFormats(cleanVal, i + 1)

TryFormats(cleanVal, i) ==
    IF i > Len(formatsToTry) THEN Null
    ELSE AcceptOrTryNext(parse(cleanVal, formatsToTry[i]), cleanVal, i)

ParseClean(cleanVal) == IF ~ NumberIsNaN(cleanVal) THEN Null ELSE TryFormats(cleanVal, 1)

\* DataUtils.parseDate
parseDate(value) == IF ~ Truthy(value) THEN Null ELSE ParseClean(Trim(String(value)))

\* addLeadingZeros(n, width)
RECURSIVE DigitsOf(_)
DigitsOf(n) == IF n < 10 THEN <<Digits[n + 1]>> ELSE Append(DigitsOf(n \div 10), Digits[(n % 10) + 1])

RECURSIVE PadLeft(_, _)
PadLeft(s, width) == IF Len(s) >= width THEN s ELSE PadLeft(<<"0">> \o s, width)

addLeadingZeros(n, width) == PadLeft(DigitsOf(n), width)

FormatToken(date, tok) ==
    CASE tok = "yyyy" -> addLeadingZeros(date.y, 4)
      [] tok = "MM" -> addLeadingZeros(date.m, 2)
      [] tok = "dd" -> addLeadingZeros(date.d, 2)
      [] tok = "MMM" -> MonthNames[date.m]
      [] OTHER -> <<tok>>

\* format(date, layout)
RECURSIVE format(_, _)
format(date, layout) ==
    IF layout = <<>> THEN <<>>
    ELSE FormatToken(date, Head(layout)) \o format(date, Tail(layout))

\* ------------------------------------------------------------------------
\* DataUtils.inferType
\* ------------------------------------------------------------------------

\* data.map(row => row[col]).filter(v => v !== null && v !== "" && v !== undefined)
ColumnValues(table, col) ==
    LET all == [i \in 1..Len(table) |-> Get(table[i], col)]
    IN  SelectSeq(all, LAMBDA v : v # <<>> /\ v # Undefined)

\* !isNaN(Number(v)) && String(v).trim() !== ''
CountsAsNumber(v) == ~ NumberIsNaN(v) /\ Trim(String(v)) # <<>>

\* DataUtils.parseDate(v) !== null
CountsAsDate(v) == parseDate(v).valid

NumCount(values) == Cardinality({i \in 1..Len(values) : CountsAsNumber(values[i])})
DateCount(values) == Cardinality({i \in 1..Len(values) : CountsAsDate(values[i])})

\* A classification whose two majority thresholds are inclusive.
ClassifyInclusive(total, numCount, dateCount) ==
    IF total = 0 THEN "Empty"
    ELSE IF numCount = total THEN "Numeric"
    ELSE IF dateCount = total THEN "Date"
    ELSE IF numCount * 10 >= total * 9 THEN "Mixed"
    ELSE IF dateCount * 10 >= total * 8 THEN "Mixed"
    ELSE "Text"

\* A classification that calls a column Mixed when more than 0.6 of it are dates.
ClassifyLowerDateCut(total, numCount, dateCount) ==
    IF total = 0 THEN "Empty"
    ELSE IF numCount = total THEN "Numeric"
    ELSE IF dateCount = total THEN "Date"
    ELSE IF numCount * 10 > total * 9 THEN "Mixed"
    ELSE IF dateCount * 10 > total * 6 THEN "Mixed"
    ELSE "Text"

Classify(total, numCount, dateCount) ==
    IF total = 0 THEN "Empty"
    ELSE IF numCount = total THEN "Numeric"
    ELSE IF dateCount = total THEN "Date"
    ELSE IF numCount * 10 > total * 9 THEN "Mixed"
    ELSE IF dateCount * 10 > total * 8 THEN "Mixed"
    ELSE "Text"

TypeOf(values) == Classify(Len(values), NumCount(values), DateCount(values))

inferType(table, col) == TypeOf(ColumnValues(table, col))

\* ------------------------------------------------------------------------
\* The table transforms the handlers compute
\* ------------------------------------------------------------------------

AllColumns == "All Columns"

\* handleTrim: every string field of every row is trimmed.
TrimRow(row) == [i \in 1..Len(row) |-> Field(row[i][1], Trim(row[i][2]))]
TrimTable(table) == [i \in 1..Len(table) |-> TrimRow(table[i])]

\* handleRemoveEmpty: keep the rows that hold some value other than "".
RowHasValue(row) == \E i \in 1..Len(row) : row[i][2] # <<>> /\ row[i][2] # Undefined
RemoveEmptyRows(table) == SelectSeq(table, RowHasValue)

\* The dedupe key of a row: JSON.stringify(row) identifies the row's fields in
\* their order (every value is a string); String(row[col]) otherwise.
DedupeKey(row, col) == IF col = AllColumns THEN <<"json", row>> ELSE <<"str", String(Get(row, col))>>

\* The forEach of scanDedupe: count a row when its key is in `unique`.
RECURSIVE ScanFrom(_, _, _)
ScanFrom(source, col, unique) ==
    IF source = <<>> THEN 0
    ELSE LET key == DedupeKey(Head(source), col)
         IN  IF key \in unique
             THEN 1 + ScanFrom(Tail(source), col, unique)
             ELSE ScanFrom(Tail(source), col, unique \cup {key})

\* A count of the rows that repeat the key of the row just above.
CountRepeats(table, col) ==
    Cardinality({i \in 2..Len(table) :
        DedupeKey(table[i - 1], col) = DedupeKey(table[i], col)})

\* scanDedupe's dupeCounter.
CountDuplicates(table, col) == ScanFrom(table, col, {})

\* The forEach of applyDedupe: keep a row unless its key was seen.
RECURSIVE KeepFirst(_, _, _)
KeepFirst(source, col, seen) ==
    IF source = <<>> THEN <<>>
    ELSE LET key == DedupeKey(Head(source), col)
         IN  IF key \in seen
             THEN KeepFirst(Tail(source), col, seen)
             ELSE <<Head(source)>> \o KeepFirst(Tail(source), col, seen \cup {key})

\* A resolution that leaves the rows kept under "last" in reverse order.
DedupeKeptReversed(table, col, strategy) ==
    IF strategy = "first"
    THEN KeepFirst(table, col, {})
    ELSE KeepFirst(Reverse(table), col, {})

\* A resolution that keeps the first row of each key under either strategy.
DedupeFirstOnly(table, col, strategy) == KeepFirst(table, col, {})

Dedupe(table, col, strategy) ==
    IF strategy = "first"
    THEN KeepFirst(table, col, {})
    ELSE Reverse(KeepFirst(Reverse(table), col, {}))

\* applyDateFix: in every row, each selected column whose value parses is
\* reformatted (a column the row lacks reads undefined and is skipped).
\* A rewrite that blanks the values that do not parse.
ReformatOrBlank(row, col, dateObj, layout) ==
    IF dateObj.valid THEN Put(row, col, format(dateObj, layout)) ELSE Put(row, col, <<>>)

Reformat(row, col, dateObj, layout) ==
    IF dateObj.valid THEN Put(row, col, format(dateObj, layout)) ELSE row

RECURSIVE FixRow(_, _, _)
FixRow(row, cols, layout) ==
    IF cols = <<>> THEN row
    ELSE FixRow(Reformat(row, Head(cols), parseDate(Get(row, Head(cols))), layout),
                Tail(cols), layout)

FixDates(table, cols, layout) == [i \in 1..Len(table) |-> FixRow(table[i], cols, layout)]

\* applyDateFix: count++ for every value of a selected column that parses.
CountParsed(table, cols) ==
    Cardinality({c \in (1..Len(table)) \X (1..Len(cols)) :
                    parseDate(Get(table[c[1]], cols[c[2]])).valid})

\* handleSplit: the two destination fields are set in every row.
SplitRow(row, cfg) ==
    LET val == IF Truthy(Get(row, cfg.col)) THEN String(Get(row, cfg.col)) ELSE <<>>
    IN  Put(Put(row, cfg.name1, SplitHead(val, cfg.delim)), cfg.name2, SplitRest(val, cfg.delim))

SplitTable(table, cfg) == [i \in 1..Len(table) |-> SplitRow(table[i], cfg)]

\* A replacement of every field that contains `find`.
ReplaceRowContaining(row, cfg) ==
    [i \in 1..Len(row) |->
        IF (cfg.col = AllColumns \/ row[i][1] = cfg.col) /\ IndexOf(String(row[i][2]), cfg.find) # 0
        THEN Field(row[i][1], cfg.replace)
        ELSE row[i]]

\* handleFindReplace: a field whose text is exactly `find` gets `replace`.
ReplaceRow(row, cfg) ==
    IF cfg.col = AllColumns
    THEN [i \in 1..Len(row) |->
            IF String(row[i][2]) = cfg.find THEN Field(row[i][1], cfg.replace) ELSE row[i]]
    ELSE IF String(Get(row, cfg.col)) = cfg.find
         THEN Put(row, cfg.col, cfg.replace)
         ELSE row

ReplaceTable(table, cfg) == [i \in 1..Len(table) |-> ReplaceRow(table[i], cfg)]

\* handleFindReplace: count++ for every field it assigns.
MatchesInRow(row, cfg) ==
    IF cfg.col = AllColumns
    THEN Cardinality({k \in 1..Len(row) : String(row[k][2]) = cfg.find})
    ELSE IF String(Get(row, cfg.col)) = cfg.find THEN 1 ELSE 0

RECURSIVE CountReplaced(_, _)
CountReplaced(table, cfg) ==
    IF table = <<>> THEN 0
    ELSE MatchesInRow(Head(table), cfg) + CountReplaced(Tail(table), cfg)

\* validationResults: /^[^\s@]+@[^\s@]+\.[^\s@]+$/
NoSpaceNoAt(s) == s # <<>> /\ \A i \in 1..Len(s) : s[i] \notin WhiteSpace \cup {"@"}

EmailPattern(s) ==
    \E a \in 1..Len(s), d \in 1..Len(s) :
        /\ a < d /\ s[a] = "@" /\ s[d] = "."
        /\ NoSpaceNoAt(SubSeq(s, 1, a - 1))
        /\ NoSpaceNoAt(SubSeq(s, a + 1, d - 1))
        /\ NoSpaceNoAt(SubSeq(s, d + 1, Len(s)))

IdChecked(cfg) == cfg.checkId /\ cfg.idCol # ""
EmailChecked(cfg) == cfg.checkEmail /\ cfg.emailCol # ""

\* errors.push({ row: index + 1, reason, data: row })
Issue(index, kind, value, row) == [row |-> index, reason |-> <<kind, String(value)>>, data |-> row]

DuplicateIdIssue(row, index, seenIds, cfg) ==
    IF IdChecked(cfg) /\ Get(row, cfg.idCol) \in seenIds
    THEN <<Issue(index, "Duplicate ID", Get(row, cfg.idCol), row)>>
    ELSE <<>>

InvalidEmailIssue(row, index, cfg) ==
    IF EmailChecked(cfg) /\ Truthy(Get(row, cfg.emailCol)) /\ ~ EmailPattern(Get(row, cfg.emailCol))
    THEN <<Issue(index, "Invalid Email", Get(row, cfg.emailCol), row)>>
    ELSE <<>>

\* A scan that remembers the id of the row before only.
SeenLast(row, seenIds, cfg) ==
    IF IdChecked(cfg) THEN {Get(row, cfg.idCol)} ELSE seenIds

SeenAfter(row, seenIds, cfg) ==
    IF IdChecked(cfg) THEN seenIds \cup {Get(row, cfg.idCol)} ELSE seenIds

\* data.forEach((row, index) => ...), index counted from 1 here
RECURSIVE ScanRows(_, _, _, _)
ScanRows(table, index, seenIds, cfg) ==
    IF index > Len(table) THEN <<>>
    ELSE DuplicateIdIssue(table[index], index, seenIds, cfg)
            \o InvalidEmailIssue(table[index], index, cfg)
            \o ScanRows(table, index + 1, SeenAfter(table[index], seenIds, cfg), cfg)

\* ------------------------------------------------------------------------
\* The editor's view: filter, sort, page
\* ------------------------------------------------------------------------

\* The characters of the model's texts in the order of their code units.
CodeUnits ==
    <<"\t", "\n", " ", "\"", ",", "-", ".", "/",
      "0", "1", "2", "3", "4", "5", "6", "7", "8", "9", "@",
      "A", "B", "C", "D", "E", "F", "G", "H", "I", "J", "K", "L", "M",
      "N", "O", "P", "Q", "R", "S", "T", "U", "V", "W", "X", "Y", "Z", "\\",
      "a", "b", "c", "d", "e", "f", "g", "h", "i", "j", "k", "l", "m",
      "n", "o", "p", "q", "r", "s", "t", "u", "v", "w", "x", "y", "z">>

CodeOf(c) == CHOOSE i \in 1..Len(CodeUnits) : CodeUnits[i] = c

\* a < b on two strings: by code units, a proper prefix first.
RECURSIVE StringLess(_, _)
StringLess(a, b) ==
    IF b = <<>> THEN FALSE
    ELSE IF a = <<>> THEN TRUE
    ELSE IF Head(a) = Head(b) THEN StringLess(Tail(a), Tail(b))
    ELSE CodeOf(Head(a)) < CodeOf(Head(b))

\* a < b on two field values: undefined compares as NaN, less than nothing
\* and greater than nothing.
LessThan(a, b) == a # Undefined /\ b # Undefined /\ StringLess(a, b)

\* The comparator of processedData's sort.
compare(a, b, config) ==
    IF LessThan(Get(a, config.key), Get(b, config.key))
    THEN (IF config.direction = "asc" THEN -1 ELSE 1)
    ELSE IF LessThan(Get(b, config.key), Get(a, config.key))
    THEN (IF config.direction = "asc" THEN 1 ELSE -1)
    ELSE 0

\* s.includes(t)
Includes(s, t) == t = <<>> \/ IndexOf(s, t) # 0

\* The filter's test of one row against the lower-cased term.
RowMatches(row, lower) ==
    \E j \in 1..Len(row) : Includes(ToLowerCase(String(row[j][2])), lower)

\* The rows of a view are the row objects of the table, each named by its
\* place in the table.
AllRows(table) == [i \in 1..Len(table) |-> i]

FilterRows(table, term) ==
    IF term = <<>>
    THEN AllRows(table)
    ELSE SelectSeq(AllRows(table), LAMBDA i : RowMatches(table[i], ToLowerCase(term)))

\* Array.prototype.sort is stable: a row goes before the first row that the
\* comparator puts after it.
RECURSIVE InsertRow(_, _, _, _)
InsertRow(sorted, i, table, config) ==
    IF sorted = <<>> THEN <<i>>
    ELSE IF compare(table[i], table[Head(sorted)], config) < 0 THEN <<i>> \o sorted
    ELSE <<Head(sorted)>> \o InsertRow(Tail(sorted), i, table, config)

RECURSIVE SortRows(_, _, _)
SortRows(rows, table, config) ==
    IF rows = <<>> THEN <<>>
    ELSE InsertRow(SortRows(SubSeq(rows, 1, Len(rows) - 1), table, config),
                   rows[Len(rows)], table, config)

\* Array.prototype.slice(start, end) for an end that is not negative.
Slice(s, start, end) ==
    LET from == IF start < 0 THEN (IF Len(s) + start < 0 THEN 0 ELSE Len(s) + start)
                ELSE start
        to == IF end > Len(s) THEN Len(s) ELSE end
    IN  IF from >= to THEN <<>> ELSE SubSeq(s, from + 1, to)

\* Math.ceil(n / size)
CeilDiv(n, size) == (n + size - 1) \div size

\* ------------------------------------------------------------------------
\* Inputs of the model
\* ------------------------------------------------------------------------

TextX == <<"x">>
TextPaddedX == <<" ", "x">>
TextXPadded == <<"x", " ">>
TextP == <<"p">>
TextAB == <<"a", " ", "b">>
DateEU == <<"0", "5", "/", "0", "1", "/", "2", "0", "2", "3">>

\* What Papa.parse hands to `complete` for a file: meta.fields and data (one
\* object per line, keyed by the header; a short line lacks the last keys).
\* FilePeople: trimming makes the two names equal, the second line is short.
FilePeople ==
    [fields |-> <<"name", "city">>,
     rows |-> << <<Field("name", TextPaddedX), Field("city", TextP)>>,
                 <<Field("name", TextXPadded)>> >>]
FileEvents ==
    [fields |-> <<"full", "date">>,
     rows |-> << <<Field("full", TextAB), Field("date", DateEU)>> >>]
FileHeaderOnly == [fields |-> <<"full", "date">>, rows |-> <<>>]

Files == {FilePeople, FileEvents, FileHeaderOnly}

\* What the user may have put into the inputs of a tool when its button is
\* clicked.  The inputs are read only by the click and every one of them can
\* be set just before it, so the click draws them: the split source and the
\* find scope (an option of the select), the delimiter, the find and replace
\* texts, the date modal's check boxes and target format.
DefaultSplitConfig ==
    [col |-> "", delim |-> <<" ">>, name1 |-> "First Name", name2 |-> "Last Name"]
SplitConfigs ==
    {[DefaultSplitConfig EXCEPT !.col = col, !.delim = delim] :
        col \in {"", "full"}, delim \in {<<>>, <<" ">>}}
DefaultFindReplace == [find |-> <<>>, replace |-> <<>>, col |-> AllColumns]
FindReplaceConfigs ==
    {[DefaultFindReplace EXCEPT !.find = find, !.col = col] :
        find \in {<<>>, TextX}, col \in {AllColumns, "name"}}
ModalTargetFormats == {LayoutISO}
DedupeCols == {AllColumns, "name"}

\* Tables for the deduplicator alone: rows that share a name, a city, or
\* both; a short row (its city reads undefined) and a row whose city is the
\* text "undefined".
RowFull == <<Field("name", TextX), Field("city", TextP)>>
RowLiteral == <<Field("name", TextX), Field("city", String(Undefined))>>
RowShort == <<Field("name", TextX)>>
RowPadded == <<Field("name", TextPaddedX), Field("city", TextP)>>
DedupeRows == {RowFull, RowLiteral, RowShort, RowPadded}
\* The most rows of such a table.
MaxRows == 4
DedupeTables == UNION {[1..n -> DedupeRows] : n \in 0..MaxRows}
DedupeSelectors == {AllColumns, "name", "city"}

\* Cell texts for the date parser and the type inferencer: each layout of
\* formatsToTry, day-first and month-first readings, lenient matches (no
\* padding, lower case, one-letter month), the year bounds, impossible days,
\* numbers in every notation Number() reads, and plain text.
TextISO == <<"2", "0", "2", "3", "-", "0", "1", "-", "0", "5">>
TextSlash == <<"0", "1", "/", "0", "6", "/", "2", "0", "2", "3">>
TextNotADate == <<"n", "o", "t", " ", "a", " ", "d", "a", "t", "e">>
TextAmbiguous == <<"0", "1", "/", "0", "2", "/", "2", "0", "2", "3">>
TextDayFirst == <<"1", "3", "/", "0", "1", "/", "2", "0", "2", "3">>
TextMonthFirst == <<"0", "1", "/", "1", "3", "/", "2", "0", "2", "3">>
TextHyphen == <<"0", "5", "-", "0", "1", "-", "2", "0", "2", "3">>
TextDot == <<"0", "5", ".", "0", "1", ".", "2", "0", "2", "3">>
TextSlashYMD == <<"2", "0", "2", "3", "/", "0", "1", "/", "0", "5">>
TextVerbose == <<"J", "a", "n", " ", "0", "5", ",", " ", "2", "0", "2", "3">>
TextVerboseLower == <<"j", "a", "n", " ", "0", "5", ",", " ", "2", "0", "2", "3">>
TextNarrow == <<"J", " ", "0", "5", ",", " ", "2", "0", "2", "3">>
TextLongMonth == <<"J", "a", "n", "u", "a", "r", "y", " ", "0", "5", ",", " ", "2", "0", "2", "3">>
TextUnpadded == <<"5", "/", "1", "/", "2", "0", "2", "3">>
TextYear1900 == <<"1", "9", "0", "0", "-", "0", "6", "-", "1", "5">>
TextYear1901 == <<"1", "9", "0", "1", "-", "0", "1", "-", "0", "1">>
TextYear2099 == <<"2", "0", "9", "9", "-", "1", "2", "-", "3", "1">>
TextYear2100 == <<"2", "1", "0", "0", "-", "0", "1", "-", "0", "1">>
TextFeb30 == <<"3", "0", "/", "0", "2", "/", "2", "0", "2", "3">>
TextLeapDay == <<"2", "9", "/", "0", "2", "/", "2", "0", "2", "4">>
TextNoLeapDay == <<"2", "9", "/", "0", "2", "/", "2", "0", "2", "3">>
TextPaddedISO == <<" ", "2", "0", "2", "3", "-", "0", "1", "-", "0", "5", " ">>
TextDigits == <<"2", "0", "2", "3", "0", "1", "0", "5">>
TextExponent == <<"1", "e", "5">>
TextDecimal == <<"1", "2", ".", "5">>
TextHex == <<"0", "x", "1", "F">>
TextNegative == <<"-", "7">>
TextShortYear == <<"0", "5", "/", "0", "1", "/", "2", "3">>
TextTrailing == <<"2", "0", "2", "3", "-", "0", "1", "-", "0", "5", "x">>
TextBlank == <<" ">>
DateTexts ==
    {DateEU,
     TextISO, TextSlash, TextNotADate, TextAmbiguous,
     TextDayFirst, TextMonthFirst, TextHyphen, TextDot,
     TextSlashYMD, TextVerbose, TextVerboseLower, TextNarrow,
     TextLongMonth, TextUnpadded, TextYear1900, TextYear1901,
     TextYear2099, TextYear2100, TextFeb30, TextLeapDay,
     TextNoLeapDay, TextPaddedISO, TextDigits, TextExponent,
     TextDecimal, TextHex, TextNegative, TextShortYear,
     TextTrailing, TextBlank}

\* One-row tables of a text column and a date column.
DateRows == {<<Field("full", full), Field("date", date)>> : full \in {TextAB, TextISO}, date \in DateTexts}

\* The most numbers and the most dates of a column built for the inferencer.
MaxNumbers == 10
MaxDates == 5

\* `n` rows that hold `value` in the date column.
Repeat(value, n) == [i \in 1..n |-> <<Field("full", TextAB), Field("date", value)>>]

\* A column of numbers, dates, plain texts and empty cells.
MixedColumn(nNum, nDate, nText, nEmpty) ==
    Repeat(TextDecimal, nNum) \o Repeat(TextISO, nDate) \o Repeat(TextNotADate, nText)
        \o Repeat(<<>>, nEmpty)

\* The column of the scenario: two dates and a text.
ScenarioColumn ==
    << <<Field("full", TextAB), Field("date", TextISO)>>,
       <<Field("full", TextAB), Field("date", TextSlash)>>,
       <<Field("full", TextAB), Field("date", TextNotADate)>> >>

DateTables ==
    {<<row>> : row \in DateRows}
        \cup {<<row, <<Field("full", TextAB)>> >> : row \in DateRows}
        \cup {MixedColumn(n[1], n[2], c, d) :
                n \in {m \in (0..MaxNumbers) \X (0..MaxDates) : m[1] <= 1 \/ m[2] <= 1},
                c \in 0..1, d \in 0..1}
        \cup {ScenarioColumn, ScenarioColumn \o Repeat(<<>>, 1)}

\* The most date normalizations applied to one of these tables.
MaxFixes == 1

\* The most entries the history of one loaded file loses by eviction.
MaxEvictions == 1
\* The most files Papa.parse is reading at one time.
MaxParsing == 1

\* ------------------------------------------------------------------------
\* State
\* ------------------------------------------------------------------------

VARIABLES
    data,               \* useState<DataRow[]>
    columns,            \* useState<string[]>
    history,            \* useState<HistoryState[]>; the timestamp is never read
    showDateModal, detectedDateCols,
    showDedupeModal, dedupeCount, dedupeCol,
    parsing,            \* how many files Papa.parse is reading
    lastOp,             \* the handler that ran last
    outcome,            \* how it ended: "done", "declined" or "thrown"
    nEvicted,           \* entries evicted from the history since the load
    toasted,            \* the count in the toast the last handler raised, if any
    validationConfig,   \* useState: the rules of the validation tab
    stored,             \* the item cp_data of localStorage
    currentPage,        \* useState(1)
    sortConfig,         \* useState: null or {key, direction}
    searchTerm,         \* useState(''): the text of the search input
    debouncedSearch,    \* useState(''): the term the filter applies
    searchTimers,       \* the pending timers of the debounce effect, oldest first
    edited,             \* the page positions of all cell edits so far, oldest first
    isLeadCaptured, showLeadGen, pendingAction,  \* the evaluator's lead-gen state
    loading,            \* LeadGenModal's useState(false)
    submitTimers,       \* the pending timers of LeadGenModal.handleSubmit
    executed            \* the restricted actions that have run, oldest first

vars ==
    <<data, columns, history, showDateModal, detectedDateCols,
      showDedupeModal, dedupeCount, dedupeCol, parsing, lastOp, outcome, nEvicted,
      toasted, validationConfig, stored, currentPage, sortConfig, searchTerm,
      debouncedSearch, searchTimers, edited, isLeadCaptured, showLeadGen, pendingAction,
      loading, submitTimers, executed>>

\* The editor's view state and the evaluator page's state.
viewVars == <<currentPage, sortConfig, searchTerm, debouncedSearch, searchTimers>>
evaluatorVars ==
    <<isLeadCaptured, showLeadGen, pendingAction, loading, submitTimers, executed>>

dateModalVars == <<showDateModal, detectedDateCols>>
dedupeModalVars == <<showDedupeModal, dedupeCount>>

HistoryLimit == 5

DefaultValidationConfig == [checkId |-> FALSE, idCol |-> "", checkEmail |-> FALSE, emailCol |-> ""]

\* localStorage.getItem('cp_data') when there is no item.
NoItem == <<>>

\* The item after the persistence effect has seen this table: only a table
\* with rows is written.
Persisted(table) == IF table = <<>> THEN NoItem ELSE <<JSONstringify(table)>>

\* sortConfig when it is null.
NullSortConfig == [key |-> "", direction |-> ""]

\* pendingAction when it is null.
NoAction == "null"

\* The view state after construction.
ViewAtMount ==
    /\ currentPage = 1
    /\ sortConfig = NullSortConfig
    /\ searchTerm = <<>>
    /\ debouncedSearch = <<>>
    /\ searchTimers = <<>>
    /\ edited = <<>>

\* The evaluator page after construction.
EvaluatorAtMount ==
    /\ isLeadCaptured = FALSE
    /\ showLeadGen = FALSE
    /\ pendingAction = NoAction
    /\ loading = FALSE
    /\ submitTimers = <<>>
    /\ executed = <<>>

Init ==
    /\ data = <<>>
    /\ columns = <<>>
    /\ history = <<>>
    /\ showDateModal = FALSE
    /\ detectedDateCols = <<>>
    /\ showDedupeModal = FALSE
    /\ dedupeCount = 0
    /\ dedupeCol = AllColumns
    /\ parsing = 0
    /\ lastOp = "mount"
    /\ outcome = "done"
    /\ nEvicted = 0
    /\ toasted = <<>>
    /\ validationConfig = DefaultValidationConfig
    /\ stored = Persisted(data)
    /\ ViewAtMount
    /\ EvaluatorAtMount

\* ------------------------------------------------------------------------
\* The handlers
\* ------------------------------------------------------------------------

\* The persistence effect, run after a render with a new table: the item is
\* written when the table has rows and left as it is otherwise.
Persist == stored' = IF data' = <<>> THEN stored ELSE <<JSONstringify(data')>>

\* A handler that ended without a toast carrying a count.
Ran(op, how) == lastOp' = op /\ outcome' = how /\ toasted' = <<>>

\* addToast with a message that carries the count n.
addToast(op, n) == lastOp' = op /\ outcome' = "done" /\ toasted' = <<n>>

\* A push that keeps every entry.
pushHistoryUnbounded(newData) == Append(history, [data |-> data])

\* A push that records the snapshot twice.
pushHistoryTwice(newData) ==
    SliceLast(Append(Append(history, [data |-> data]), [data |-> data]), HistoryLimit)

\* The history after pushHistory(newData): the entry holds the table of the
\* current render, whatever the argument; the argument goes to setData.
pushHistory(newData) == SliceLast(Append(history, [data |-> data]), HistoryLimit)

\* The push evicts the oldest entry of a full history.
Pushed ==
    IF Len(history) < HistoryLimit
    THEN UNCHANGED nEvicted
    ELSE nEvicted < MaxEvictions /\ nEvicted' = nEvicted + 1

\* Object.keys(table[0]) throws a TypeError on an empty table.
CanDeriveColumns(table) == table # <<>>

\* The entry pushed first.
oldest == history[1]

\* undo's `previous`: the entry pushed last.
previous == history[Len(history)]

undo ==
    /\ IF history = <<>>
       THEN Ran("undo", "declined") /\ UNCHANGED <<data, columns, history, nEvicted>>
       ELSE /\ data' = previous.data
            /\ IF CanDeriveColumns(previous.data)
               THEN /\ columns' = Keys(previous.data[1])
                    /\ history' = SubSeq(history, 1, Len(history) - 1)
                    /\ UNCHANGED nEvicted
                    /\ Ran("undo", "done")
               ELSE \* the update queued before the throw is still applied
                    /\ UNCHANGED <<columns, history, nEvicted>>
                    /\ Ran("undo", "thrown")
    /\ UNCHANGED <<dateModalVars, dedupeModalVars, dedupeCol, parsing,
                    validationConfig>>
    /\ Persist /\ UNCHANGED <<viewVars, edited, evaluatorVars>>

\* handleFileUpload: Papa.parse reads the file and calls `complete` later.
handleFileUpload ==
    /\ parsing < MaxParsing
    /\ parsing' = parsing + 1
    /\ Ran("handleFileUpload", "done")
    /\ UNCHANGED <<data, columns, history, nEvicted, dateModalVars, dedupeModalVars, dedupeCol,
                    validationConfig>>
    /\ UNCHANGED <<stored, viewVars, edited, evaluatorVars>>

\* Papa.parse's `complete` callback, with what it read from the file.
\* A load that keeps the history of the table it replaces.
completeKeepingHistory(results) ==
    /\ parsing > 0
    /\ parsing' = parsing - 1
    /\ columns' = results.fields
    /\ data' = results.rows
    /\ addToast("complete", Len(results.rows))
    /\ UNCHANGED <<history, nEvicted, dateModalVars, dedupeModalVars, dedupeCol,
                   validationConfig>>
    /\ Persist /\ currentPage' = 1
    /\ UNCHANGED <<sortConfig, searchTerm, debouncedSearch, searchTimers, edited, evaluatorVars>>

complete(results) ==
    /\ parsing > 0
    /\ parsing' = parsing - 1
    /\ columns' = results.fields
    /\ data' = results.rows
    /\ history' = <<>>
    /\ nEvicted' = 0
    /\ addToast("complete", Len(results.rows))
    /\ UNCHANGED <<dateModalVars, dedupeModalVars, dedupeCol,
                    validationConfig>>
    /\ Persist /\ currentPage' = 1
    /\ UNCHANGED <<sortConfig, searchTerm, debouncedSearch, searchTimers, edited, evaluatorVars>>

\* The header's Clear button, confirmed.
clearData ==
    /\ data' = <<>>
    /\ Ran("clearData", "done")
    /\ UNCHANGED <<columns, history, nEvicted, dateModalVars, dedupeModalVars, dedupeCol, parsing,
                    validationConfig>>
    /\ stored' = NoItem /\ UNCHANGED <<viewVars, edited, evaluatorVars>>

handleTrim ==
    /\ history' = pushHistory(data)
    /\ Pushed
    /\ data' = TrimTable(data)
    /\ Ran("handleTrim", "done")
    /\ UNCHANGED <<columns, dateModalVars, dedupeModalVars, dedupeCol, parsing,
                    validationConfig>>
    /\ Persist /\ UNCHANGED <<viewVars, edited, evaluatorVars>>

handleRemoveEmpty ==
    /\ history' = pushHistory(data)
    /\ Pushed
    /\ data' = RemoveEmptyRows(data)
    /\ addToast("handleRemoveEmpty", Len(data) - Len(RemoveEmptyRows(data)))
    /\ UNCHANGED <<columns, dateModalVars, dedupeModalVars, dedupeCol, parsing,
                    validationConfig>>
    /\ Persist /\ UNCHANGED <<viewVars, edited, evaluatorVars>>

setDedupeCol(col) ==
    /\ dedupeCol' = col
    /\ Ran("setDedupeCol", "done")
    /\ UNCHANGED <<data, columns, history, nEvicted, dateModalVars, dedupeModalVars, parsing,
                    validationConfig>>
    /\ UNCHANGED <<stored, viewVars, edited, evaluatorVars>>

scanDedupe ==
    LET dupeCounter == CountDuplicates(data, dedupeCol)
    IN  /\ IF dupeCounter = 0
           THEN Ran("scanDedupe", "declined") /\ UNCHANGED dedupeModalVars
           ELSE /\ dedupeCount' = dupeCounter
                /\ showDedupeModal' = TRUE
                /\ Ran("scanDedupe", "done")
        /\ UNCHANGED <<data, columns, history, nEvicted, dateModalVars, dedupeCol, parsing,
                        validationConfig>>
        /\ UNCHANGED <<stored, viewVars, edited, evaluatorVars>>

closeDedupeModal ==
    /\ showDedupeModal' = FALSE
    /\ Ran("closeDedupeModal", "done")
    /\ UNCHANGED <<data, columns, history, nEvicted, dedupeCount, dateModalVars, dedupeCol, parsing,
                    validationConfig>>
    /\ UNCHANGED <<stored, viewVars, edited, evaluatorVars>>

applyDedupe(strategy) ==
    /\ showDedupeModal' = FALSE
    /\ history' = pushHistory(data)
    /\ Pushed
    /\ data' = Dedupe(data, dedupeCol, strategy)
    /\ addToast("applyDedupe", Len(data) - Len(Dedupe(data, dedupeCol, strategy)))
    /\ UNCHANGED <<columns, dedupeCount, dateModalVars, dedupeCol, parsing,
                    validationConfig>>
    /\ Persist /\ UNCHANGED <<viewVars, edited, evaluatorVars>>

offerDateFix(potentials) ==
    /\ IF potentials = <<>>
       THEN Ran("scanForDates", "declined") /\ UNCHANGED dateModalVars
       ELSE /\ detectedDateCols' = potentials
            /\ showDateModal' = TRUE
            /\ Ran("scanForDates", "done")
    /\ UNCHANGED <<data, columns, history, nEvicted, dedupeModalVars, dedupeCol, parsing,
                    validationConfig>>
    /\ UNCHANGED <<stored, viewVars, edited, evaluatorVars>>

scanForDates ==
    offerDateFix(SelectSeq(columns, LAMBDA col : inferType(data, col) \in {"Date", "Mixed"}))

closeDateModal ==
    /\ showDateModal' = FALSE
    /\ Ran("closeDateModal", "done")
    /\ UNCHANGED <<data, columns, history, nEvicted, detectedDateCols, dedupeModalVars, dedupeCol, parsing,
                    validationConfig>>
    /\ UNCHANGED <<stored, viewVars, edited, evaluatorVars>>

applyDateFix(selectedDateCols, targetDateFormat) ==
    /\ showDateModal' = FALSE
    /\ history' = pushHistory(data)
    /\ Pushed
    /\ data' = FixDates(data, SelectSeq(detectedDateCols, LAMBDA col : col \in selectedDateCols),
                        targetDateFormat)
    /\ addToast("applyDateFix",
                CountParsed(data, SelectSeq(detectedDateCols, LAMBDA col : col \in selectedDateCols)))
    /\ UNCHANGED <<columns, detectedDateCols, dedupeModalVars, dedupeCol, parsing,
                    validationConfig>>
    /\ Persist /\ UNCHANGED <<viewVars, edited, evaluatorVars>>

\* The checkboxes and selects of the validation tab.
setValidationConfig(cfg) ==
    /\ validationConfig' = cfg
    /\ Ran("setValidationConfig", "done")
    /\ UNCHANGED <<data, columns, history, nEvicted, dateModalVars, dedupeModalVars, dedupeCol,
                   parsing>>
    /\ UNCHANGED <<stored, viewVars, edited, evaluatorVars>>

\* useMemo over data and validationConfig
validationResults == ScanRows(data, 1, {}, validationConfig)

\* A split that checks the source column alone.
handleSplitAnyDelimiter(splitConfig) ==
    /\ IF splitConfig.col = ""
       THEN Ran("handleSplit", "declined") /\ UNCHANGED <<data, columns, history, nEvicted>>
       ELSE LET newData == SplitTable(data, splitConfig)
            IN  /\ history' = pushHistory(data)
                /\ Pushed
                /\ data' = newData
                /\ IF CanDeriveColumns(newData)
                   THEN columns' = Keys(newData[1]) /\ Ran("handleSplit", "done")
                   ELSE UNCHANGED columns /\ Ran("handleSplit", "thrown")
    /\ UNCHANGED <<dateModalVars, dedupeModalVars, dedupeCol, parsing,
                    validationConfig>>
    /\ Persist /\ UNCHANGED <<viewVars, edited, evaluatorVars>>

handleSplit(splitConfig) ==
    /\ IF splitConfig.col = "" \/ splitConfig.delim = <<>>
       THEN Ran("handleSplit", "declined") /\ UNCHANGED <<data, columns, history, nEvicted>>
       ELSE LET newData == SplitTable(data, splitConfig)
            IN  /\ history' = pushHistory(data)
                /\ Pushed
                /\ data' = newData
                /\ IF CanDeriveColumns(newData)
                   THEN columns' = Keys(newData[1]) /\ Ran("handleSplit", "done")
                   ELSE UNCHANGED columns /\ Ran("handleSplit", "thrown")
    /\ UNCHANGED <<dateModalVars, dedupeModalVars, dedupeCol, parsing,
                    validationConfig>>
    /\ Persist /\ UNCHANGED <<viewVars, edited, evaluatorVars>>

handleFindReplace(findReplace) ==
    /\ IF findReplace.find = <<>>
       THEN Ran("handleFindReplace", "declined") /\ UNCHANGED <<data, history, nEvicted>>
       ELSE /\ history' = pushHistory(data)
            /\ Pushed
            /\ data' = ReplaceTable(data, findReplace)
            /\ addToast("handleFindReplace", CountReplaced(data, findReplace))
    /\ UNCHANGED <<columns, dateModalVars, dedupeModalVars, dedupeCol, parsing,
                    validationConfig>>
    /\ Persist /\ UNCHANGED <<viewVars, edited, evaluatorVars>>

\* useState(50)
rowsPerPage == 50

\* useMemo over data, sortConfig and debouncedSearch: the filter, then the
\* sort, on a copy of the table.
processedData ==
    IF sortConfig = NullSortConfig
    THEN FilterRows(data, debouncedSearch)
    ELSE SortRows(FilterRows(data, debouncedSearch), data, sortConfig)

paginatedData ==
    Slice(processedData, (currentPage - 1) * rowsPerPage,
          (currentPage - 1) * rowsPerPage + rowsPerPage)

totalPages == CeilDiv(Len(processedData), rowsPerPage)

\* An edit that looks the row up by its content: the first row of the table
\* equal to the edited one.
handleCellEditByContent(rowObj, col, value) ==
    /\ IF rowObj \notin 1..Len(data)
       THEN UNCHANGED data /\ Ran("handleCellEdit", "declined")
       ELSE LET actualIndex == CHOOSE i \in 1..Len(data) :
                    data[i] = data[rowObj] /\ \A j \in 1..(i - 1) : data[j] # data[rowObj]
            IN  /\ data' = [data EXCEPT ![actualIndex] = Put(data[actualIndex], col, value)]
                /\ Ran("handleCellEdit", "done")
    /\ UNCHANGED <<columns, history, nEvicted, dateModalVars, dedupeModalVars, dedupeCol,
                   parsing, validationConfig>>
    /\ Persist /\ UNCHANGED <<viewVars, evaluatorVars>>

\* An edit that writes into the row object itself, which the newest snapshot
\* holding that row shares.
handleCellEditInPlace(rowObj, col, value) ==
    /\ IF rowObj \notin 1..Len(data)
       THEN UNCHANGED <<data, history>> /\ Ran("handleCellEdit", "declined")
       ELSE /\ data' = [data EXCEPT ![rowObj] = Put(data[rowObj], col, value)]
            /\ history' =
                [i \in 1..Len(history) |->
                    [data |-> [k \in 1..Len(history[i].data) |->
                        IF history[i].data[k] = data[rowObj]
                        THEN Put(data[rowObj], col, value)
                        ELSE history[i].data[k]]]]
            /\ Ran("handleCellEdit", "done")
    /\ UNCHANGED <<columns, nEvicted, dateModalVars, dedupeModalVars, dedupeCol,
                   parsing, validationConfig>>
    /\ Persist /\ UNCHANGED <<viewVars, evaluatorVars>>

\* handleCellEdit(rowObj, col, value): rowObj is a row object, named by its
\* place in the table (the objects of one table are distinct, so indexOf
\* finds that place), or 0 for an object that is no row of the table.
handleCellEdit(rowObj, col, value) ==
    /\ IF rowObj \notin 1..Len(data)
       THEN UNCHANGED data /\ Ran("handleCellEdit", "declined")
       ELSE /\ data' = [data EXCEPT ![rowObj] = Put(data[rowObj], col, value)]
            /\ Ran("handleCellEdit", "done")
    /\ UNCHANGED <<columns, history, nEvicted, dateModalVars, dedupeModalVars, dedupeCol,
                   parsing, validationConfig>>
    /\ Persist /\ UNCHANGED <<viewVars, evaluatorVars>>

profilerState ==
    <<data, columns, history, nEvicted, dateModalVars, dedupeModalVars, dedupeCol,
      parsing, validationConfig, stored>>

\* A search input whose debounce effect has no cleanup: the timers of the
\* earlier keystrokes stay pending.
changeSearchKeepingTimers(value) ==
    /\ searchTerm' = value
    /\ currentPage' = 1
    /\ searchTimers' = Append(searchTimers, value)
    /\ Ran("changeSearch", "done")
    /\ UNCHANGED <<profilerState, sortConfig, debouncedSearch, edited, evaluatorVars>>

\* The search input's onChange and the debounce effect it triggers: the
\* cleanup clears the pending timer and a new one is set for the new term.
changeSearch(value) ==
    /\ searchTerm' = value
    /\ currentPage' = 1
    /\ searchTimers' = <<value>>
    /\ Ran("changeSearch", "done")
    /\ UNCHANGED <<profilerState, sortConfig, debouncedSearch, edited, evaluatorVars>>

\* The debounce timer fires: setDebouncedSearch with the term of its render.
fireSearchTimer ==
    /\ searchTimers # <<>>
    /\ debouncedSearch' = Head(searchTimers)
    /\ searchTimers' = Tail(searchTimers)
    /\ Ran("fireSearchTimer", "done")
    /\ UNCHANGED <<profilerState, currentPage, sortConfig, searchTerm, edited, evaluatorVars>>

\* The onClick of a column header.
clickSort(col) ==
    /\ sortConfig' =
        [key |-> col,
         direction |-> IF sortConfig.key = col /\ sortConfig.direction = "asc"
                       THEN "desc" ELSE "asc"]
    /\ Ran("clickSort", "done")
    /\ UNCHANGED <<profilerState, currentPage, searchTerm, debouncedSearch, searchTimers,
                   edited, evaluatorVars>>

Max(a, b) == IF a > b THEN a ELSE b

prevPage ==
    /\ currentPage' = Max(1, currentPage - 1)
    /\ Ran("prevPage", "done")
    /\ UNCHANGED <<profilerState, sortConfig, searchTerm, debouncedSearch, searchTimers,
                   edited, evaluatorVars>>

nextPage ==
    /\ currentPage' = Min(totalPages, currentPage + 1)
    /\ Ran("nextPage", "done")
    /\ UNCHANGED <<profilerState, sortConfig, searchTerm, debouncedSearch, searchTimers,
                   edited, evaluatorVars>>

\* The mount effect of a new session: the item, if it parses to a table with
\* rows, becomes the table; the persistence effect then writes it back.
Restored == IF stored = NoItem THEN <<>> ELSE JSONparse(stored[1])

mount ==
    /\ data' = Restored
    /\ columns' = IF Restored = <<>> THEN <<>> ELSE Keys(Restored[1])
    /\ history' = <<>>
    /\ nEvicted' = 0
    /\ showDateModal' = FALSE
    /\ detectedDateCols' = <<>>
    /\ showDedupeModal' = FALSE
    /\ dedupeCount' = 0
    /\ dedupeCol' = AllColumns
    /\ parsing' = 0
    /\ validationConfig' = DefaultValidationConfig
    /\ currentPage' = 1
    /\ sortConfig' = NullSortConfig
    /\ searchTerm' = <<>>
    /\ debouncedSearch' = <<>>
    /\ searchTimers' = <<>>
    /\ Ran("mount", "done")
    /\ Persist /\ UNCHANGED <<edited, evaluatorVars>>

\* ------------------------------------------------------------------------
\* The page: a handler runs when its control is rendered, enabled and not
\* covered by a modal's overlay
\* ------------------------------------------------------------------------

\* The sidebar and the editor are rendered only for a non-empty table.
SidebarShown == data # <<>>
NoModal == ~ showDateModal /\ ~ showDedupeModal
SidebarUsable == SidebarShown /\ NoModal

\* The options of a column select: every current column.
ColumnOptions == {columns[i] : i \in 1..Len(columns)}
DetectedDateCols == {detectedDateCols[i] : i \in 1..Len(detectedDateCols)}

ClickUpload == NoModal /\ handleFileUpload
ParseComplete == \E results \in Files : complete(results)
ClickClear == SidebarUsable /\ clearData
ClickUndo == SidebarUsable /\ history # <<>> /\ undo
ClickTrim == SidebarUsable /\ handleTrim
ClickRemoveEmpty == SidebarUsable /\ handleRemoveEmpty
ClickScanDates == SidebarUsable /\ scanForDates
SelectDedupeCol ==
    SidebarUsable /\ \E col \in DedupeCols \cap ({AllColumns} \cup ColumnOptions) : setDedupeCol(col)
ClickScanDedupe == SidebarUsable /\ scanDedupe
ClickSplit ==
    SidebarUsable /\ \E cfg \in SplitConfigs :
        cfg.col \in ColumnOptions /\ handleSplit(cfg)
ClickFindReplace ==
    SidebarUsable /\ \E cfg \in FindReplaceConfigs :
        cfg.col \in {AllColumns} \cup ColumnOptions /\ handleFindReplace(cfg)
ClickCancelDates == showDateModal /\ closeDateModal
ClickApplyDates ==
    showDateModal /\ \E selected \in SUBSET DetectedDateCols, layout \in ModalTargetFormats :
        applyDateFix(selected, layout)
ClickCancelDedupe == showDedupeModal /\ closeDedupeModal
ClickKeepFirst == showDedupeModal /\ applyDedupe("first")
ClickKeepLast == showDedupeModal /\ applyDedupe("last")

Next ==
    \/ ClickUpload
    \/ ParseComplete
    \/ ClickClear
    \/ ClickUndo
    \/ ClickTrim
    \/ ClickRemoveEmpty
    \/ ClickScanDates
    \/ SelectDedupeCol
    \/ ClickScanDedupe
    \/ ClickSplit
    \/ ClickFindReplace
    \/ ClickCancelDates
    \/ ClickApplyDates
    \/ ClickCancelDedupe
    \/ ClickKeepFirst
    \/ ClickKeepLast

Spec == Init /\ [][Next]_vars

\* ------------------------------------------------------------------------
\* The component's named handlers as entry points: each runs on whatever
\* state it is called in, whether or not the page renders its control
\* ------------------------------------------------------------------------

CallComplete == \E results \in Files : complete(results)
CallApplyDedupe == \E strategy \in {"first", "last"} : applyDedupe(strategy)
CallApplyDateFix ==
    \E selected \in SUBSET DetectedDateCols, layout \in ModalTargetFormats :
        applyDateFix(selected, layout)
CallSplit == \E cfg \in SplitConfigs : handleSplit(cfg)
CallFindReplace == \E cfg \in FindReplaceConfigs : handleFindReplace(cfg)

NextApi ==
    \/ handleFileUpload
    \/ CallComplete
    \/ clearData
    \/ undo
    \/ handleTrim
    \/ handleRemoveEmpty
    \/ scanForDates
    \/ scanDedupe
    \/ CallSplit
    \/ CallFindReplace
    \/ CallApplyDateFix
    \/ CallApplyDedupe

SpecApi == Init /\ [][NextApi]_vars

\* ------------------------------------------------------------------------
\* The deduplicator alone: scan and apply on any small table
\* ------------------------------------------------------------------------

InitDedupe ==
    /\ data \in DedupeTables
    /\ columns = <<"name", "city">>
    /\ history = <<>>
    /\ showDateModal = FALSE
    /\ detectedDateCols = <<>>
    /\ showDedupeModal = FALSE
    /\ dedupeCount = 0
    /\ dedupeCol \in DedupeSelectors
    /\ parsing = 0
    /\ lastOp = "complete"
    /\ outcome = "done"
    /\ nEvicted = 0
    /\ toasted = <<Len(data)>>
    /\ validationConfig = DefaultValidationConfig
    /\ stored = Persisted(data)
    /\ ViewAtMount
    /\ EvaluatorAtMount

NextDedupe ==
    \/ scanDedupe
    \/ CallApplyDedupe

SpecDedupe == InitDedupe /\ [][NextDedupe]_vars

\* ------------------------------------------------------------------------
\* The date tools alone: type inference, scan and normalization on the
\* tables above
\* ------------------------------------------------------------------------

InitDates ==
    /\ data \in DateTables
    /\ columns = <<"full", "date">>
    /\ history = <<>>
    /\ showDateModal = FALSE
    /\ detectedDateCols = <<>>
    /\ showDedupeModal = FALSE
    /\ dedupeCount = 0
    /\ dedupeCol = AllColumns
    /\ parsing = 0
    /\ lastOp = "complete"
    /\ outcome = "done"
    /\ nEvicted = 0
    /\ toasted = <<Len(data)>>
    /\ validationConfig = DefaultValidationConfig
    /\ stored = Persisted(data)
    /\ ViewAtMount
    /\ EvaluatorAtMount

ApplyAnyFormat ==
    /\ showDateModal
    /\ Len(history) < MaxFixes
    /\ \E selected \in SUBSET DetectedDateCols, layout \in TargetFormats :
            applyDateFix(selected, layout)

NextDates ==
    \/ ClickScanDates
    \/ ClickCancelDates
    \/ ApplyAnyFormat

SpecDates == InitDates /\ [][NextDates]_vars

\* ------------------------------------------------------------------------
\* The split tool alone: handleSplit on a loaded table
\* ------------------------------------------------------------------------

TextJaneMiddleDoe == <<"J", "a", "n", "e", " ", "M", "i", "d", "d", "l", "e", " ", "D", "o", "e">>
TextJaneDoe == <<"J", "a", "n", "e", " ", "D", "o", "e">>
TextJane == <<"J", "a", "n", "e">>
TextOld == <<"o", "l", "d">>

\* Cell texts: the delimiter " " or ", " absent, once, twice, doubled, leading, trailing.
SplitTexts ==
    {TextJaneMiddleDoe, TextJaneDoe, TextJane, <<>>, <<" ", "J", "a", "n", "e">>, <<"J", "a", "n", "e", " ">>,
      <<"a", " ", " ", "b">>, <<"D", "o", "e", ",", " ", "J", "a", "n", "e", ",", " ", "M">>, <<" ">>}

\* Rows of a parsed CSV with the columns full and last; a short row has no full.
SplitRows ==
    {<<Field("full", text), Field("last", TextOld)>> : text \in SplitTexts}
        \cup {<<Field("last", TextOld)>>}

\* The most rows of a table handed to the split tool.
MaxSplitRows == 2

SplitTables == UNION {[1..n -> SplitRows] : n \in 1..MaxSplitRows}

\* What the split controls can hold: a column of the table, a typed delimiter
\* and two distinct typed names, new or those of existing columns.
SplitInputs ==
    {[col |-> "full", delim |-> delim, name1 |-> names[1], name2 |-> names[2]] :
        delim \in {<<" ">>, <<",", " ">>},
        names \in {<<"First Name", "Last Name">>, <<"first", "last">>, <<"last", "first">>,
                    <<"full", "rest">>}}

InitSplit ==
    /\ data \in SplitTables
    /\ columns = <<"full", "last">>
    /\ history = <<>>
    /\ showDateModal = FALSE
    /\ detectedDateCols = <<>>
    /\ showDedupeModal = FALSE
    /\ dedupeCount = 0
    /\ dedupeCol = AllColumns
    /\ parsing = 0
    /\ lastOp = "complete"
    /\ outcome = "done"
    /\ nEvicted = 0
    /\ toasted = <<Len(data)>>
    /\ validationConfig = DefaultValidationConfig
    /\ stored = Persisted(data)
    /\ ViewAtMount
    /\ EvaluatorAtMount

\* The most splits applied to one of these tables.
MaxSplits == 1

ApplySplit == Len(history) < MaxSplits /\ \E cfg \in SplitInputs : handleSplit(cfg)

NextSplit ==
    \/ ApplySplit
    \/ ClickUndo

SpecSplit == InitSplit /\ [][NextSplit]_vars

\* ------------------------------------------------------------------------
\* The validation tab and find-and-replace on a table of records
\* ------------------------------------------------------------------------

TextGoodEmail == <<"a", "@", "b", ".", "c", "o", "m">>
TextBad == <<"b", "a", "d">>
TextOne == <<"1">>
TextTwo == <<"2">>

\* Cell texts of an email column.
EmailTexts ==
    {TextGoodEmail, TextBad, <<>>, <<"a", "@", "b">>, <<"@", "b", ".", "c">>, <<"a", "@", ".", "c">>, <<"a", "@", "b", ".">>,
      <<"a", "@", "b", ".", "c", ".", "d">>, <<"a", "@", "@", "b", ".", "c">>, <<"a", " ", "b", "@", "c", ".", "d">>, <<"a", ".", "b", "@", "c", ".", "d">>, <<"u", "n", "d", "e", "f", "i", "n", "e", "d">>}

\* Rows of a parsed CSV with the columns id and email; short rows lack one.
RecordRows ==
    {<<Field("id", id), Field("email", email)>> :
        id \in {TextOne, TextTwo}, email \in {TextGoodEmail, TextBad, <<>>}}
        \cup {<<Field("id", TextOne)>>, <<Field("email", TextBad)>>}

\* Rows that repeat an id, with a good and a bad email.
RepeatRows ==
    {<<Field("id", TextOne), Field("email", TextGoodEmail)>>,
     <<Field("id", TextTwo), Field("email", TextBad)>>,
     <<Field("id", TextOne), Field("email", TextBad)>>}

\* The most rows of a table of records.
MaxRecords == 3

RecordTables ==
    {<<<<Field("id", id), Field("email", email)>>>> : id \in {TextOne, <<>>}, email \in EmailTexts}
        \cup [1..2 -> RecordRows]
        \cup UNION {[1..n -> RepeatRows] : n \in 3..MaxRecords}

\* What the find-and-replace controls can hold.
ReplaceInputs ==
    {[find |-> find, replace |-> replace, col |-> col] :
        find \in {TextBad, TextOne, <<"a", "@", "b">>, <<"u", "n", "d", "e", "f", "i", "n", "e", "d">>},
        replace \in {<<>>, TextGoodEmail},
        col \in {AllColumns, "email"}}

InitRecords ==
    /\ data \in RecordTables
    /\ columns = <<"id", "email">>
    /\ history = <<>>
    /\ showDateModal = FALSE
    /\ detectedDateCols = <<>>
    /\ showDedupeModal = FALSE
    /\ dedupeCount = 0
    /\ dedupeCol = AllColumns
    /\ parsing = 0
    /\ lastOp = "complete"
    /\ outcome = "done"
    /\ nEvicted = 0
    /\ toasted = <<Len(data)>>
    /\ validationConfig = DefaultValidationConfig
    /\ stored = Persisted(data)
    /\ ViewAtMount
    /\ EvaluatorAtMount

\* One control of the validation tab changes; a select is enabled by its checkbox.
ChangeValidation ==
    \E on \in BOOLEAN, col \in {""} \cup ColumnOptions :
        \/ setValidationConfig([validationConfig EXCEPT !.checkId = on])
        \/ setValidationConfig([validationConfig EXCEPT !.checkEmail = on])
        \/ validationConfig.checkId /\ setValidationConfig([validationConfig EXCEPT !.idCol = col])
        \/ validationConfig.checkEmail
                /\ setValidationConfig([validationConfig EXCEPT !.emailCol = col])

\* The most replacements applied to one of these tables.
MaxReplaces == 1

ApplyReplace ==
    /\ Len(history) < MaxReplaces
    /\ \E cfg \in ReplaceInputs : handleFindReplace(cfg)

NextRecords ==
    \/ ChangeValidation
    \/ ApplyReplace
    \/ ClickUndo

SpecRecords == InitRecords /\ [][NextRecords]_vars

\* Find-and-replace alone, the validation tab left as it is.
NextReplace ==
    \/ ApplyReplace
    \/ ClickUndo

SpecReplace == InitRecords /\ [][NextReplace]_vars

\* ------------------------------------------------------------------------
\* The editor: search, sort and cell edits around the mutating tools
\* ------------------------------------------------------------------------

TextPaddedB == <<" ", "b">>
TextAC == <<"a", " ", "c">>
TextA == <<"a">>
TextUpperB == <<"B">>

\* A table whose first and last rows have the same content, with a padded
\* name, a name to split, a date in two layouts and an empty row between
\* them; and a table of one empty row (a line holding only the delimiter).
RowB == <<Field("name", TextPaddedB), Field("date", DateEU)>>
RowAC == <<Field("name", TextAC), Field("date", TextISO)>>
RowEmpty == <<Field("name", <<>>), Field("date", <<>>)>>
ViewTables == {<<RowB, RowAC, RowEmpty, RowB>>, <<RowEmpty>>}

\* What the user types into the search box and into a cell.
SearchTerms == {<<>>, TextUpperB}
CellTexts == {TextA}
ViewSplitInputs == {[DefaultSplitConfig EXCEPT !.col = "name"]}
ViewReplaceInputs == {[find |-> TextAC, replace |-> TextA, col |-> AllColumns]}

InitView ==
    /\ data \in ViewTables
    /\ columns = <<"name", "date">>
    /\ history = <<>>
    /\ showDateModal = FALSE
    /\ detectedDateCols = <<>>
    /\ showDedupeModal = FALSE
    /\ dedupeCount = 0
    /\ dedupeCol = AllColumns
    /\ parsing = 0
    /\ lastOp = "complete"
    /\ outcome = "done"
    /\ nEvicted = 0
    /\ toasted = <<Len(data)>>
    /\ validationConfig = DefaultValidationConfig
    /\ stored = Persisted(data)
    /\ ViewAtMount
    /\ EvaluatorAtMount

\* The most mutating operations and the most cell edits of one session.
MaxViewOps == 1
MaxEdits == 1

\* The editor tab is rendered with the sidebar.
EditorUsable == SidebarUsable
CanPush == Len(history) < MaxViewOps

TypeSearch ==
    EditorUsable /\ \E value \in SearchTerms : value # searchTerm /\ changeSearch(value)
ClickSort == EditorUsable /\ \E col \in ColumnOptions : clickSort(col)
ClickPrevPage == EditorUsable /\ currentPage # 1 /\ prevPage
ClickNextPage == EditorUsable /\ currentPage # totalPages /\ nextPage

\* What the input of a cell shows: row[col] || ''.
Shown(row, col) == IF Truthy(Get(row, col)) THEN Get(row, col) ELSE <<>>

\* The user types into the cell at a position of the page.
TypeCell ==
    /\ EditorUsable
    /\ Len(edited) < MaxEdits
    /\ \E pos \in 1..Len(paginatedData), col \in ColumnOptions, value \in CellTexts :
        /\ value # Shown(data[paginatedData[pos]], col)
        /\ handleCellEdit(paginatedData[pos], col, value)
        /\ edited' = Append(edited, pos)

ViewTrim == CanPush /\ ClickTrim
ViewRemoveEmpty == CanPush /\ ClickRemoveEmpty
ViewSplit == CanPush /\ SidebarUsable /\ \E cfg \in ViewSplitInputs : handleSplit(cfg)
ViewReplace == CanPush /\ SidebarUsable /\ \E cfg \in ViewReplaceInputs : handleFindReplace(cfg)
ViewScanDates == CanPush /\ ClickScanDates
ViewScanDedupe == CanPush /\ ClickScanDedupe

NextView ==
    \/ TypeSearch
    \/ fireSearchTimer
    \/ ClickSort
    \/ TypeCell
    \/ ViewTrim
    \/ ViewRemoveEmpty
    \/ ClickUndo

SpecView == InitView /\ [][NextView]_vars

\* ------------------------------------------------------------------------
\* Every tool of the sidebar and the sort of the view on the same tables
\* ------------------------------------------------------------------------

\* The tables above with a column that tells the rows apart and that no
\* tool input below matches.
Numbered(row, id) == <<Field("id", id)>> \o row
OrderTables ==
    {<<Numbered(RowB, <<"1">>), Numbered(RowAC, <<"2">>), Numbered(RowEmpty, <<>>),
       Numbered(RowB, <<"4">>)>>,
     <<Numbered(RowEmpty, <<>>)>>}

InitOrder ==
    /\ data \in OrderTables
    /\ columns = <<"id", "name", "date">>
    /\ history = <<>>
    /\ showDateModal = FALSE
    /\ detectedDateCols = <<>>
    /\ showDedupeModal = FALSE
    /\ dedupeCount = 0
    /\ dedupeCol \in {AllColumns, "name"}
    /\ parsing = 0
    /\ lastOp = "complete"
    /\ outcome = "done"
    /\ nEvicted = 0
    /\ toasted = <<Len(data)>>
    /\ validationConfig = DefaultValidationConfig
    /\ stored = Persisted(data)
    /\ ViewAtMount
    /\ EvaluatorAtMount

NextOrder ==
    \/ ClickSort
    \/ ViewTrim
    \/ ViewRemoveEmpty
    \/ ViewSplit
    \/ ViewReplace
    \/ ViewScanDates
    \/ ClickCancelDates
    \/ ClickApplyDates
    \/ ViewScanDedupe
    \/ ClickCancelDedupe
    \/ ClickKeepFirst
    \/ ClickKeepLast
    \/ ClickUndo

SpecOrder == InitOrder /\ [][NextOrder]_vars

\* ------------------------------------------------------------------------
\* The pager: a table of more than one page, searched, shrunk and replaced
\* ------------------------------------------------------------------------

TextNoMatch == <<"z">>

\* One row more than a page holds: fifty rows with one content, then RowB.
LongTable == [i \in 1..rowsPerPage |-> RowAC] \o <<RowB>>
PageSearchTerms == {<<>>, TextUpperB, TextNoMatch}

InitPages ==
    /\ data = LongTable
    /\ columns = <<"name", "date">>
    /\ history = <<>>
    /\ showDateModal = FALSE
    /\ detectedDateCols = <<>>
    /\ showDedupeModal = FALSE
    /\ dedupeCount = 0
    /\ dedupeCol = AllColumns
    /\ parsing = 0
    /\ lastOp = "complete"
    /\ outcome = "done"
    /\ nEvicted = 0
    /\ toasted = <<Len(data)>>
    /\ validationConfig = DefaultValidationConfig
    /\ stored = Persisted(data)
    /\ ViewAtMount
    /\ EvaluatorAtMount

TypePageSearch ==
    EditorUsable /\ \E value \in PageSearchTerms : value # searchTerm /\ changeSearch(value)

NextPages ==
    \/ TypePageSearch
    \/ fireSearchTimer
    \/ ClickPrevPage
    \/ ClickNextPage
    \/ ViewScanDedupe
    \/ ClickCancelDedupe
    \/ ClickKeepFirst
    \/ ClickUndo
    \/ ClickUpload
    \/ ParseComplete

SpecPages == InitPages /\ [][NextPages]_vars

\* ------------------------------------------------------------------------
\* The search box alone with the view around it; a timer that is set and not
\* cleared fires
\* ------------------------------------------------------------------------

NextSearch ==
    \/ TypeSearch
    \/ fireSearchTimer
    \/ ClickSort
    \/ TypeCell

SpecSearch == InitView /\ [][NextSearch]_vars /\ WF_vars(fireSearchTimer)

\* ------------------------------------------------------------------------
\* Sessions: the table is edited, emptied, cleared and replaced, and the page
\* is opened again on what the store holds
\* ------------------------------------------------------------------------

\* The page is closed and opened again.
Reload == mount

NextSession ==
    \/ TypeCell
    \/ ViewTrim
    \/ ViewRemoveEmpty
    \/ ClickUndo
    \/ ClickClear
    \/ ClickUpload
    \/ ParseComplete
    \/ Reload

SpecSession == InitView /\ [][NextSession]_vars

\* ------------------------------------------------------------------------
\* The helpdesk evaluator page: restricted actions behind the lead form
\* ------------------------------------------------------------------------

\* Every variable of the profiler page.
profilerVars == <<profilerState, viewVars, edited, lastOp, outcome, toasted>>

\* The actions handed to handleRestrictedAction: the PDF export and the
\* opening of a plan's details.
RestrictedActions == {"downloadComparisonReport", "setSelectedPlanDetails"}

handleRestrictedAction(action) ==
    /\ IF isLeadCaptured
       THEN executed' = Append(executed, action) /\ UNCHANGED <<pendingAction, showLeadGen>>
       ELSE pendingAction' = action /\ showLeadGen' = TRUE /\ UNCHANGED executed
    /\ UNCHANGED <<isLeadCaptured, loading, submitTimers, profilerVars>>

\* LeadGenModal.handleSubmit: the timer's callback holds the onUnlock of the
\* render it was created in, and with it that render's pendingAction, and
\* the setLoading of the modal instance, which does nothing once the
\* instance is unmounted.
handleSubmit ==
    /\ loading' = TRUE
    /\ submitTimers' = Append(submitTimers, [pendingAction |-> pendingAction, mounted |-> TRUE])
    /\ UNCHANGED <<isLeadCaptured, showLeadGen, pendingAction, executed, profilerVars>>

\* The modal instance is unmounted: its state is gone and its timers run on.
Unmounted(timers) == [i \in 1..Len(timers) |-> [timers[i] EXCEPT !.mounted = FALSE]]

\* The modal's onClose.
closeLeadGen ==
    /\ showLeadGen' = FALSE
    /\ loading' = FALSE
    /\ submitTimers' = Unmounted(submitTimers)
    /\ UNCHANGED <<isLeadCaptured, pendingAction, executed, profilerVars>>

\* handleLeadGenUnlock as the closure of a render whose pendingAction was
\* `pending`.
handleLeadGenUnlock(pending) ==
    /\ isLeadCaptured' = TRUE
    /\ showLeadGen' = FALSE
    /\ IF pending # NoAction
       THEN executed' = Append(executed, pending) /\ pendingAction' = NoAction
       ELSE UNCHANGED <<executed, pendingAction>>

\* The 800 ms timer of handleSubmit fires; timers fire in the order they
\* were set.
fireSubmitTimer ==
    /\ submitTimers # <<>>
    /\ handleLeadGenUnlock(Head(submitTimers).pendingAction)
    /\ loading' = FALSE
    /\ submitTimers' = Unmounted(Tail(submitTimers))
    /\ UNCHANGED profilerVars

\* The most timers pending at one time and the most actions run behind the
\* captured lead.
MaxSubmitTimers == 3
MaxExecuted == 3

\* The page's buttons are covered while the lead modal is shown.
ClickRestricted ==
    /\ ~ showLeadGen
    /\ Len(executed) < MaxExecuted
    /\ \E action \in RestrictedActions : handleRestrictedAction(action)
SubmitLead ==
    showLeadGen /\ ~ loading /\ Len(submitTimers) < MaxSubmitTimers /\ handleSubmit
CloseLead == showLeadGen /\ closeLeadGen

NextEvaluator ==
    \/ ClickRestricted
    \/ SubmitLead
    \/ CloseLead
    \/ fireSubmitTimer

SpecEvaluator == Init /\ [][NextEvaluator]_vars

\* ------------------------------------------------------------------------
\* Properties
\* ------------------------------------------------------------------------

MutatingOps ==
    {"handleTrim", "handleRemoveEmpty", "handleSplit", "handleFindReplace",
     "applyDedupe", "applyDateFix"}

\* A step in which a mutating operation ran and was not declined (every
\* handler records itself in lastOp, so a step that ends with lastOp = op and
\* changes the state is a step of op).
Mutated == lastOp' \in MutatingOps /\ outcome' # "declined"
UndoStep == lastOp' = "undo"

Front(s) == SubSeq(s, 1, Len(s) - 1)

\* The history without its newest entry is a suffix of `older`.
FrontIsSuffixOf(older) ==
    \E k \in 0..Len(older) : Front(history') = SubSeq(older, k + 1, Len(older))

\* A push keeps the entries in push order and evicts the oldest one of a
\* full history.
PushedInOrder ==
    IF Len(history) < HistoryLimit
    THEN Front(history') = history
    ELSE /\ Len(history') = HistoryLimit
         /\ \A i \in 1..(HistoryLimit - 1) : history'[i] = history[i + 1]

\* C1: the history never holds more than 5 entries; a push appends at the
\* end, and on a full history it drops the oldest entry and keeps the other
\* four in their order, so after more than 5 pushes the history is the 5
\* newest snapshots in push order.
HistoryBound ==
    /\ [](Len(history) <= HistoryLimit)
    /\ [][Mutated => history' # <<>> /\ PushedInOrder]_vars

\* A sixth push has evicted the oldest entry of a full history.
OldestEvicted ==
    /\ nEvicted > 0
    /\ Len(history) = HistoryLimit
    /\ lastOp \in MutatingOps

\* C2: every mutating operation that is not declined pushes exactly one
\* entry (all entries but the newest were in the history before, in the
\* same order), and the newest entry holds the table as it was before the
\* operation changed it.
SnapshotThenMutate ==
    [][Mutated =>
        /\ history' # <<>>
        /\ history'[Len(history')].data = data
        /\ FrontIsSuffixOf(history)]_vars

\* A mutating operation changed the table and the newest entry holds the
\* table it changed.
SnapshotDiffersFromResult ==
    /\ lastOp \in MutatingOps
    /\ outcome = "done"
    /\ history # <<>>
    /\ previous.data # data

\* C3: after a mutating operation on table T the entry undo restores holds
\* T, and an undo that follows the operation at once makes that entry's
\* table the current table: undo(op(T)) = T.
UndoLeftInverse ==
    [][/\ Mutated => history' # <<>> /\ previous'.data = data
       /\ (UndoStep /\ lastOp \in MutatingOps /\ outcome # "declined")
            => history # <<>> /\ data' = previous.data]_vars

\* Undo has taken a table that operations changed back to the table the
\* file was loaded with.
UndoneToLoaded ==
    /\ lastOp = "undo"
    /\ outcome = "done"
    /\ history = <<>>
    /\ data = FilePeople.rows

\* C4: undo with an empty history changes neither the table, the columns
\* nor the history; undo with a non-empty history removes exactly the newest
\* entry and makes that entry's table the current table.
UndoPopsNewest ==
    [][UndoStep =>
        IF history = <<>>
        THEN UNCHANGED <<data, columns, history>>
        ELSE history' = Front(history) /\ data' = previous.data]_vars

\* The deduplicator -------------------------------------------------------

SameKey(a, b) == DedupeKey(a, dedupeCol) = DedupeKey(b, dedupeCol)

\* The rows of the table whose key no earlier (no later) row has.
FirstOfKey(table) ==
    {i \in 1..Len(table) : \A j \in 1..(i - 1) : ~ SameKey(table[j], table[i])}
LastOfKey(table) ==
    {i \in 1..Len(table) : \A j \in (i + 1)..Len(table) : ~ SameKey(table[j], table[i])}

\* The rows at the given places, in the table's order.
RowsAt(table, keep) ==
    LET Upto[i \in 0..Len(table)] ==
            IF i = 0 THEN <<>>
            ELSE IF i \in keep THEN Append(Upto[i - 1], table[i]) ELSE Upto[i - 1]
    IN  Upto[Len(table)]

\* C5: for every table and key selector, keeping the first row of each key
\* leaves as many rows as the table has minus the duplicates the scan
\* counts (the rows whose key an earlier row has), no two of them with the
\* same key; the count the scan reports is that number.
DedupeCountsAgree ==
    LET kept == Dedupe(data, dedupeCol, "first")
        dupes == CountDuplicates(data, dedupeCol)
    IN  /\ dupes = Len(data) - Cardinality(FirstOfKey(data))
        /\ Len(kept) = Len(data) - dupes
        /\ \A i, j \in 1..Len(kept) : i # j => ~ SameKey(kept[i], kept[j])
        /\ (lastOp = "scanDedupe" /\ outcome = "done") => dedupeCount = dupes

\* The scan has reported two duplicates, and keeping the first rows removes
\* two rows.
ScanCountedTwo ==
    /\ lastOp = "scanDedupe"
    /\ outcome = "done"
    /\ dedupeCount = 2
    /\ Len(Dedupe(data, dedupeCol, "first")) = Len(data) - 2

\* C6: for every table and key selector the resolution keeps one row per
\* key, in the table's order: the first row of each key under `first`, the
\* last row of each key under `last`, which is the reverse of keeping the
\* first rows of the reversed table; applyDedupe makes one of the two the
\* current table.
KeepsOnePerKey ==
    /\ Dedupe(data, dedupeCol, "first") = RowsAt(data, FirstOfKey(data))
    /\ Dedupe(data, dedupeCol, "last") = RowsAt(data, LastOfKey(data))
    /\ Dedupe(data, dedupeCol, "last") = Reverse(Dedupe(Reverse(data), dedupeCol, "first"))
    /\ lastOp = "applyDedupe" =>
            /\ history # <<>>
            /\ data \in {RowsAt(previous.data, FirstOfKey(previous.data)),
                         RowsAt(previous.data, LastOfKey(previous.data))}

\* Keep Last has run on a table where it keeps other rows than Keep First.
KeptLastRows ==
    /\ lastOp = "applyDedupe"
    /\ history # <<>>
    /\ data = RowsAt(previous.data, LastOfKey(previous.data))
    /\ data # RowsAt(previous.data, FirstOfKey(previous.data))

\* C7: applyDedupe runs only on a table in which the scan under the current
\* key selector finds a duplicate: the table it ran on (the snapshot it
\* pushed) has at least one.
ApplyOnlyOnDuplicates ==
    lastOp = "applyDedupe" =>
        history # <<>> /\ CountDuplicates(previous.data, dedupeCol) > 0

\* C8: a split requested with an empty source column or an empty delimiter,
\* and a find-and-replace requested with an empty `find`, change neither the
\* table, the columns nor the history.
InvalidInputsDeclined ==
    [][/\ \A cfg \in SplitConfigs :
            (cfg.col = "" \/ cfg.delim = <<>>) /\ handleSplit(cfg)
                => UNCHANGED <<data, columns, history>>
       /\ \A cfg \in FindReplaceConfigs :
            cfg.find = <<>> /\ handleFindReplace(cfg)
                => UNCHANGED <<data, columns, history>>]_vars

\* A split was declined on a loaded table with a history.
SplitDeclined ==
    /\ lastOp = "handleSplit"
    /\ outcome = "declined"
    /\ data # <<>>
    /\ history # <<>>

\* C9: an undo whose newest entry holds an empty table raises no exception
\* and either changes nothing or restores the entry whole.
EmptySnapshotUndoGraceful ==
    [][(UndoStep /\ history # <<>> /\ previous.data = <<>>) =>
        /\ outcome' # "thrown"
        /\ \/ UNCHANGED <<data, columns, history>>
           \/ data' = previous.data /\ history' = Front(history)]_vars

\* C10: no handler throws, whatever the table.
NoHandlerThrows == outcome # "thrown"

\* ------------------------------------------------------------------------
\* Type inference and date parsing
\* ------------------------------------------------------------------------

\* The type the rule of the specification gives to a column with `total`
\* collected values, `n` of them numeric and `d` of them dates.
RuleGives(type, total, n, d) ==
    /\ total = 0 => type = "Empty"
    /\ total > 0 /\ n = total => type = "Numeric"
    /\ total > 0 /\ n # total /\ d = total => type = "Date"
    /\ total > 0 /\ n # total /\ d # total /\ 10 * n > 9 * total => type = "Mixed"
    /\ total > 0 /\ n # total /\ d # total /\ 10 * n <= 9 * total /\ 10 * d > 8 * total
          => type = "Mixed"
    /\ total > 0 /\ n # total /\ d # total /\ 10 * n <= 9 * total /\ 10 * d <= 8 * total
          => type = "Text"

\* The values of a column that are neither absent nor the empty string.
Collected(table, col) ==
    {i \in 1..Len(table) : HasKey(table[i], col) /\ Get(table[i], col) # <<>>}

NumericIn(table, col) ==
    Cardinality({i \in Collected(table, col) : CountsAsNumber(Get(table[i], col))})

DatesIn(table, col) ==
    Cardinality({i \in Collected(table, col) : CountsAsDate(Get(table[i], col))})

FollowsRule(table, col) ==
    RuleGives(inferType(table, col), Cardinality(Collected(table, col)),
              NumericIn(table, col), DatesIn(table, col))

\* The columns `scanForDates` offers: those inferred as Date or Mixed.
Offered(table) == SelectSeq(columns, LAMBDA col : inferType(table, col) \in {"Date", "Mixed"})

ScanStep == lastOp' = "scanForDates"

\* C11: inferType follows the rule Empty / Numeric / Date / Mixed (more than
\* 0.9 numeric) / Mixed (more than 0.8 dates) / Text over the collected
\* values of the column; the scan that runs it changes neither the table
\* nor the history, so the type of every column is the same after it, and a
\* scan that found something offers exactly the Date and Mixed columns.
InferTypeIsPure ==
    /\ [](\A col \in {"full", "date", "absent"} : FollowsRule(data, col))
    /\ [](lastOp = "scanForDates" /\ outcome = "done" => detectedDateCols = Offered(data))
    /\ [][ScanStep =>
            /\ UNCHANGED <<data, columns, history>>
            /\ \A col \in {"full", "date"} : inferType(data', col) = inferType(data, col)]_vars

\* C11 witness: a scan has offered a column that is Mixed by the 0.9 rule on
\* numbers (10 of 11), leaving an empty history.
ScannedMixedColumn ==
    /\ lastOp = "scanForDates" /\ outcome = "done"
    /\ history = <<>>
    /\ Len(data) = 11
    /\ NumericIn(data, "date") = 10
    /\ inferType(data, "date") = "Mixed"
    /\ detectedDateCols = <<"date">>

\* The non-empty values of the scenario's column.
ScenarioValues == <<TextISO, TextSlash, TextNotADate>>

HoldsScenario(col) == ColumnValues(data, col) = ScenarioValues

\* C12 as stated: a column whose non-empty values are "2023-01-05",
\* "01/06/2023", "not a date" is inferred as Mixed.
ScenarioIsMixed ==
    \A col \in {"full", "date"} : HoldsScenario(col) => inferType(data, col) = "Mixed"

\* C12 amended: a column whose non-empty values are "2023-01-05",
\* "01/06/2023", "not a date" (2 of 3 are dates, none is numeric) is inferred
\* as Text.
ScenarioIsText ==
    \A col \in {"full", "date"} :
        HoldsScenario(col) =>
            /\ DateCount(ColumnValues(data, col)) = 2
            /\ NumCount(ColumnValues(data, col)) = 0
            /\ inferType(data, col) = "Text"

\* C12 witness: the scan ran on the scenario's column, padded with an empty
\* cell, and found no date column to offer.
ScenarioScanned ==
    /\ HoldsScenario("date")
    /\ Len(data) = 4
    /\ lastOp = "scanForDates" /\ outcome = "declined"
    /\ ~ showDateModal

\* The layouts in the order the specification fixes.
LayoutOrder ==
    << <<"yyyy", "-", "MM", "-", "dd">>, <<"dd", "/", "MM", "/", "yyyy">>,
       <<"MM", "/", "dd", "/", "yyyy">>, <<"dd", "-", "MM", "-", "yyyy">>,
       <<"dd", ".", "MM", ".", "yyyy">>, <<"yyyy", "/", "MM", "/", "dd">>,
       <<"MMM", " ", "dd", ",", " ", "yyyy">> >>

InYearWindow(date) == date.valid /\ 1900 < date.y /\ date.y < 2100

\* Layout i yields a structurally valid date of an accepted year.
Qualifies(clean, i) == InYearWindow(parse(clean, LayoutOrder[i]))

FirstQualifying(clean, i) == Qualifies(clean, i) /\ \A j \in 1..(i - 1) : ~ Qualifies(clean, j)

CandidateRule(v, clean) ==
    /\ IsNumberText(clean) => parseDate(v) = Null
    /\ (\A i \in 1..7 : ~ Qualifies(clean, i)) => parseDate(v) = Null
    /\ \A i \in 1..7 :
          ~ IsNumberText(clean) /\ FirstQualifying(clean, i)
              => parseDate(v) = parse(clean, LayoutOrder[i])
    /\ parseDate(v) # Null => InYearWindow(parseDate(v))
    /\ ~ (CountsAsNumber(v) /\ CountsAsDate(v))
    /\ v = TextAmbiguous => parseDate(v) = [valid |-> TRUE, y |-> 2023, m |-> 2, d |-> 1]

\* C13: parseDate returns null for every numeric string and otherwise the
\* date of the first layout, in the fixed order, that gives a valid date with
\* 1900 < year < 2100, null when none does; "01/02/2023" is the 1st of
\* February; no value counts both as a number and as a date.
FirstLayoutWins ==
    \A v \in {Get(data[i], col) : i \in 1..Len(data), col \in {"full", "date"}} :
        CandidateRule(v, Trim(String(v)))

\* C13 witness: the ambiguous "01/02/2023" has been normalized to ISO and
\* reads 2023-02-01.
AmbiguousReadDayFirst ==
    /\ lastOp = "applyDateFix"
    /\ Len(history) = 1
    /\ Len(history[1].data) = 1
    /\ Get(history[1].data[1], "date") = TextAmbiguous
    /\ Get(data[1], "date") = <<"2", "0", "2", "3", "-", "0", "2", "-", "0", "1">>

\* ------------------------------------------------------------------------
\* Date normalization
\* ------------------------------------------------------------------------

DateFixStep == lastOp' = "applyDateFix"

\* The fields of `new` whose value is not the one they have in `old`.
ChangedFields(old, new) ==
    {c \in (1..Len(new)) \X {"full", "date", "name", "city", "first", "last"} :
        /\ c[1] <= Len(old)
        /\ Get(new[c[1]], c[2]) # Get(old[c[1]], c[2])}

\* C14: the count applyDateFix reports is the number of fields whose value in
\* the new table differs from its value in the old table.
ReportsValuesChanged ==
    [][DateFixStep => toasted' = <<Cardinality(ChangedFields(data, data'))>>]_vars

\* What a normalization of the columns `sel` may do to the table.
TouchesOnlyParsed(sel, old, new) ==
    /\ Len(new) = Len(old)
    /\ \A i \in 1..Len(old) :
          /\ Keys(new[i]) = Keys(old[i])
          /\ \A col \in {"full", "date", "absent"} :
                col \notin sel \/ ~ CountsAsDate(Get(old[i], col))
                    => Get(new[i], col) = Get(old[i], col)

\* C15: applyDateFix changes only values of a selected column that parse;
\* every other value is identical in the new table, the table keeps its rows
\* and every row its keys, and a value that does not parse raises no error.
OnlyParsedSelectedChange ==
    [][\A sel \in SUBSET {"full", "date"}, layout \in TargetFormats :
          sel \subseteq DetectedDateCols /\ applyDateFix(sel, layout)
              => TouchesOnlyParsed(sel, data, data') /\ outcome' = "done"]_vars

\* C15 witness: a Mixed column of five dates and a text was normalized; the
\* dates were rewritten, the text passed through.
TextPassedThrough ==
    /\ lastOp = "applyDateFix" /\ outcome = "done"
    /\ Len(history) = 1 /\ Len(data) = 6
    /\ Get(history[1].data[1], "date") = TextISO
    /\ Get(data[1], "date") # TextISO
    /\ Get(history[1].data[6], "date") = TextNotADate
    /\ Get(data[6], "date") = TextNotADate
    /\ Get(data[6], "full") = TextAB

\* Formatting the date of v with the layout that matched it gives back v.
RoundTrips(v, clean) ==
    \A k \in 1..7 :
        CountsAsDate(v) /\ FirstQualifying(clean, k) => format(parseDate(v), formatsToTry[k]) = v

\* C16: for every value the date parser accepts, formatting the parsed date
\* with the layout that matched gives back exactly the value.
DateRoundTrip ==
    \A v \in {Get(data[i], col) : i \in 1..Len(data), col \in {"full", "date"}} :
        RoundTrips(v, Trim(String(v)))

\* ------------------------------------------------------------------------
\* Split and find-and-replace
\* ------------------------------------------------------------------------

\* The text of the source field; a row without the field splits as "".
SourceText(row, col) == IF HasKey(row, col) THEN Get(row, col) ELSE <<>>

OccursAt(src, delim, k) ==
    k + Len(delim) - 1 <= Len(src) /\ SubSeq(src, k, k + Len(delim) - 1) = delim

\* head is src up to its first delimiter (all of it without one), rest is
\* what follows that delimiter (nothing without one).
CutAtFirst(src, delim, head, rest) ==
    IF \E k \in 1..Len(src) : OccursAt(src, delim, k)
    THEN /\ head \o delim \o rest = src
         /\ \A k \in 1..Len(head) : ~ OccursAt(src, delim, k)
    ELSE head = src /\ rest = <<>>

SplitsRow(old, new, cfg) ==
    /\ CutAtFirst(SourceText(old, cfg.col), cfg.delim, Get(new, cfg.name1), Get(new, cfg.name2))
    /\ \A i \in 1..Len(old) : old[i][1] \notin {cfg.name1, cfg.name2} => new[i] = old[i]
    /\ \A i \in 1..Len(new) :
          new[i][1] \notin {cfg.name1, cfg.name2} => i <= Len(old) /\ new[i] = old[i]
    /\ SourceText(old, cfg.col) = TextJaneMiddleDoe /\ cfg.delim = <<" ">>
          => Get(new, cfg.name1) = TextJane
                /\ Get(new, cfg.name2) = <<"M", "i", "d", "d", "l", "e", " ", "D", "o", "e">>

\* C17: a split with a source column, a delimiter and two destination names
\* gives every row destination 1 = the source text before its first
\* delimiter (all of it when there is none) and destination 2 = the text
\* after that delimiter (empty when there is none); "Jane Middle Doe" on " "
\* gives "Jane" and "Middle Doe"; every other field of the row is unchanged
\* and a column named like a destination is overwritten.
SplitsAtFirstDelimiter ==
    [][\A cfg \in SplitInputs :
          handleSplit(cfg) =>
              /\ Len(data') = Len(data)
              /\ \A i \in 1..Len(data) : SplitsRow(data[i], data'[i], cfg)]_vars

\* C17 witness: "Jane Middle Doe" was split on " " into first and the
\* existing column last, whose old value is gone.
SplitJaneMiddleDoe ==
    /\ lastOp = "handleSplit" /\ outcome = "done"
    /\ history # <<>>
    /\ previous.data[1] = <<Field("full", TextJaneMiddleDoe), Field("last", TextOld)>>
    /\ data[1] = <<Field("full", TextJaneMiddleDoe),
                   Field("last", <<"M", "i", "d", "d", "l", "e", " ", "D", "o", "e">>),
                   Field("first", TextJane)>>

\* The fields find-and-replace looks at in a row: every field of the row, or
\* the one field of the named column.
Scope(row, cfg) ==
    IF cfg.col = AllColumns THEN {row[k][1] : k \in 1..Len(row)} ELSE {cfg.col}

\* The fields in scope whose stringified value is exactly `find`.
Matching(row, cfg) == {key \in Scope(row, cfg) : String(Get(row, key)) = cfg.find}

ReplacesRow(old, new, cfg) ==
    /\ \A key \in Matching(old, cfg) : Get(new, key) = cfg.replace
    /\ \A k \in 1..Len(old) : old[k][1] \notin Matching(old, cfg) => new[k] = old[k]
    /\ \A k \in 1..Len(new) :
          new[k][1] \notin Matching(old, cfg) => k <= Len(old) /\ new[k] = old[k]

RECURSIVE SumMatching(_, _)
SumMatching(table, cfg) ==
    IF table = <<>> THEN 0
    ELSE Cardinality(Matching(Head(table), cfg)) + SumMatching(Tail(table), cfg)

ReplaceStep == lastOp' = "handleFindReplace"

\* C18: find-and-replace with a non-empty `find` gives `replace` to exactly
\* the fields in scope whose stringified value equals `find` (a field that
\* only contains `find` is kept); the count it reports is the number of those
\* fields; every other field, the number of rows and their order are as
\* before.
ReplacesExactMatches ==
    [][ReplaceStep =>
          \A cfg \in ReplaceInputs :
              handleFindReplace(cfg) =>
                  /\ Len(data') = Len(data)
                  /\ \A i \in 1..Len(data) : ReplacesRow(data[i], data'[i], cfg)
                  /\ toasted' = <<SumMatching(data, cfg)>>
                  /\ UNCHANGED columns]_vars

\* C18 witness: "1" was replaced over all columns in three rows; the count
\* is 3 and the email fields are as before.
ReplacedThree ==
    /\ lastOp = "handleFindReplace" /\ outcome = "done"
    /\ toasted = <<3>>
    /\ history # <<>>
    /\ Len(data) = 3
    /\ \A i \in 1..3 :
          /\ Get(previous.data[i], "id") = TextOne
          /\ Get(data[i], "id") = <<>>
          /\ Get(data[i], "email") = Get(previous.data[i], "email")

\* ------------------------------------------------------------------------
\* Validation
\* ------------------------------------------------------------------------

\* One "@", no white space, something before the "@", and after it a "."
\* with something on both sides.
WellShaped(s) ==
    /\ Cardinality({i \in 1..Len(s) : s[i] = "@"}) = 1
    /\ \A i \in 1..Len(s) : s[i] \notin WhiteSpace
    /\ s[1] # "@"
    /\ \E d \in 2..(Len(s) - 1) : s[d] = "." /\ s[d - 1] # "@" /\ \E a \in 1..(d - 2) : s[a] = "@"

IdRuleOn == validationConfig.checkId /\ validationConfig.idCol # ""
EmailRuleOn == validationConfig.checkEmail /\ validationConfig.emailCol # ""

\* Row i repeats the id of an earlier row.
RepeatsId(i) ==
    /\ IdRuleOn
    /\ \E j \in 1..(i - 1) :
          Get(data[j], validationConfig.idCol) = Get(data[i], validationConfig.idCol)

\* Row i holds an email that fails the shape check.
FailsShape(i) ==
    /\ EmailRuleOn
    /\ HasKey(data[i], validationConfig.emailCol)
    /\ ~ WellShaped(Get(data[i], validationConfig.emailCol))

\* Row i holds a non-empty email that fails the shape check.
FailsShapeNonEmpty(i) == FailsShape(i) /\ Get(data[i], validationConfig.emailCol) # <<>>

\* The issues of row i, in the order reported.
IssuesOfRow(issues, i) == SelectSeq(issues, LAMBDA e : e.row = i)

Kinds(issues) == [k \in 1..Len(issues) |-> issues[k].reason[1]]

\* The report lists, row by row, a duplicate-ID issue for the rows of `dup`
\* and then an invalid-email issue for the rows of `bad`, and nothing else.
Reports(issues, dup, bad) ==
    /\ \A k \in 1..Len(issues) :
          /\ issues[k].row \in 1..Len(data)
          /\ issues[k].data = data[issues[k].row]
          /\ k > 1 => issues[k - 1].row <= issues[k].row
    /\ \A i \in 1..Len(data) :
          Kinds(IssuesOfRow(issues, i)) =
              (IF i \in dup THEN <<"Duplicate ID">> ELSE <<>>)
                  \o (IF i \in bad THEN <<"Invalid Email">> ELSE <<>>)

\* C19 as stated: the report holds, in row order and with 1-based row
\* numbers, one duplicate-ID issue for each row whose id repeats that of an
\* earlier row and one invalid-email issue for each row whose email fails the
\* shape check, each only when its check is enabled with a column chosen.
ReportsEveryMisshapenEmail ==
    Reports(validationResults, {i \in 1..Len(data) : RepeatsId(i)},
            {i \in 1..Len(data) : FailsShape(i)})

\* C19 amended: as stated, with the invalid-email issue for each row whose
\* non-empty email fails the shape check; rows [{id 1, a@b.com}, {id 1, bad}]
\* with both checks on give exactly two issues, both on row 2.
ReportsInRowOrder ==
    /\ Reports(validationResults, {i \in 1..Len(data) : RepeatsId(i)},
               {i \in 1..Len(data) : FailsShapeNonEmpty(i)})
    /\ (/\ data = << <<Field("id", TextOne), Field("email", TextGoodEmail)>>,
                      <<Field("id", TextOne), Field("email", TextBad)>> >>
        /\ validationConfig = [checkId |-> TRUE, idCol |-> "id",
                               checkEmail |-> TRUE, emailCol |-> "email"])
          => validationResults =
                << [row |-> 2, reason |-> <<"Duplicate ID", TextOne>>, data |-> data[2]],
                   [row |-> 2, reason |-> <<"Invalid Email", TextBad>>, data |-> data[2]] >>

\* C19 witness: both checks are on over three rows whose third repeats the
\* id of the first and holds a bad email: one issue on row 2, two on row 3.
TwoIssuesOnOneRow ==
    /\ lastOp = "setValidationConfig"
    /\ IdRuleOn /\ EmailRuleOn
    /\ Len(data) = 3
    /\ Get(data[1], "id") # Get(data[2], "id")
    /\ [k \in 1..Len(validationResults) |-> validationResults[k].row] = <<2, 3, 3>>
    /\ Kinds(validationResults) = <<"Invalid Email", "Duplicate ID", "Invalid Email">>

\* ------------------------------------------------------------------------
\* Load
\* ------------------------------------------------------------------------

CompleteStep == lastOp' = "complete"

\* C20: a load that completes makes the loaded rows the table and the loaded
\* header the columns and empties the history, whatever came before; an undo
\* that follows it changes nothing.
LoadClearsHistory ==
    [][/\ CompleteStep =>
            /\ history' = <<>>
            /\ \E f \in Files : data' = f.rows /\ columns' = f.fields
       /\ (UndoStep /\ lastOp = "complete") =>
            /\ outcome' = "declined"
            /\ UNCHANGED <<data, columns, history>>]_vars

\* C20 witness: undo was called right after a load and left the loaded table
\* and the empty history as they were.
UndoAfterLoadDeclined ==
    /\ lastOp = "undo" /\ outcome = "declined"
    /\ history = <<>>
    /\ data = FilePeople.rows
    /\ columns = FilePeople.fields

\* The entries of the history before the step that are still in it after the
\* step, `dropped` of the oldest gone, hold the tables they held.
KeepsEntries(dropped, kept) ==
    /\ dropped >= 0
    /\ dropped + kept <= Len(history)
    /\ kept <= Len(history')
    /\ \A i \in 1..kept : history'[i].data = history[i + dropped].data

RowIds(table) == [i \in 1..Len(table) |-> Get(table[i], "id")]

\* `sub` is `full` with some of its elements left out.
RECURSIVE IsSubsequence(_, _)
IsSubsequence(sub, full) ==
    IF sub = <<>> THEN TRUE
    ELSE IF full = <<>> THEN FALSE
    ELSE IF Head(sub) = Head(full) THEN IsSubsequence(Tail(sub), Tail(full))
    ELSE IsSubsequence(sub, Tail(full))

RowWiseOps == {"handleTrim", "handleSplit", "handleFindReplace", "applyDateFix"}
RowDroppingOps == {"handleRemoveEmpty", "applyDedupe"}

\* C22: trim, split, find-replace and date normalization give a table with as
\* many rows as before, the i-th row of the result coming from the i-th row of
\* the input; remove-empty-rows and dedupe under either strategy give the
\* surviving rows in the order they had in the input; a click on a column
\* header changes the sort of the view and leaves the table as it is.
RowOrderPreserved ==
    [][/\ lastOp' \in RowWiseOps /\ outcome' # "declined" => RowIds(data') = RowIds(data)
       /\ lastOp' \in RowDroppingOps => IsSubsequence(RowIds(data'), RowIds(data))
       /\ lastOp' = "clickSort" => data' = data]_vars

\* Keep-last has dropped the first of two rows with the same name, and the
\* view is sorted.
KeptLastInOrder ==
    /\ lastOp = "applyDedupe"
    /\ RowIds(data) = << <<"2">>, <<>>, <<"4">> >>
    /\ sortConfig # NullSortConfig

\* The table with the empty value put into every row that lacks the column.
FilledIn(table, col) ==
    [i \in 1..Len(table) |->
        IF HasKey(table[i], col) THEN table[i] ELSE Put(table[i], col, <<>>)]

\* C23: a row that lacks the selected key column is scanned as the same row
\* holding the empty value for it: the duplicate scan reports what it would
\* report on the table with the missing values filled in as empty (no
\* duplicates alike, and the same count otherwise).
MissingKeyScansAsEmpty ==
    [][lastOp' = "scanDedupe" /\ dedupeCol # AllColumns =>
        IF CountDuplicates(FilledIn(data, dedupeCol), dedupeCol) = 0
        THEN outcome' = "declined"
        ELSE /\ outcome' = "done"
             /\ dedupeCount' = CountDuplicates(FilledIn(data, dedupeCol), dedupeCol)]_vars

\* C24: the current page is at least 1 and at most max(1, totalPages).
PageIndexValid == 1 <= currentPage /\ currentPage <= Max(1, totalPages)

Keystroke == lastOp' = "changeSearch"

\* C25: the applied term changes only when the debounce timer fires, and
\* then to the term the input holds; a keystroke leaves exactly one timer
\* pending, the one for the term just typed, so the timer of an earlier
\* keystroke never fires; and if the keystrokes stop, the applied term
\* eventually equals the typed term and stays so.
SearchDebounced ==
    /\ [][/\ debouncedSearch' # debouncedSearch =>
                /\ lastOp' = "fireSearchTimer"
                /\ searchTerm' = searchTerm
                /\ debouncedSearch' = searchTerm
          /\ Keystroke => searchTimers' = <<searchTerm'>>]_vars
    /\ (<>[][~ Keystroke]_vars => <>[](debouncedSearch = searchTerm))

\* A term was typed and cleared again before its timer fired: the applied
\* term is still the empty one and the only pending timer is the one of the
\* last keystroke.
StaleTermCancelled ==
    /\ lastOp = "changeSearch"
    /\ searchTerm = <<>>
    /\ debouncedSearch = <<>>
    /\ searchTimers = << <<>> >>

\* The normalization applied to its own output.
FixedTwice(table, cols, layout) == FixDates(FixDates(table, cols, layout), cols, layout)

\* The selections of the date modal over the two columns.
Selections == {<<>>, <<"full">>, <<"date">>, <<"full", "date">>}

\* C26: for every selection of columns and every target layout, normalizing
\* the table a second time gives what the first normalization gave.
NormalizationIdempotent ==
    \A cols \in Selections, layout \in TargetFormats :
        FixedTwice(data, cols, layout) = FixDates(data, cols, layout)

\* C27: the table a new session would restore from the store is the current
\* table, and nothing would be restored when the current table is empty.
StoreTracksTable == Restored = data

\* C28: every column name held by a selector (the dedupe key column, the sort
\* key, the ID and email columns of the validation rules) is the selector's
\* unset value or a column of the current table.
SelectorsCurrent ==
    /\ dedupeCol \in {AllColumns} \cup ColumnOptions
    /\ sortConfig.key \in {NullSortConfig.key} \cup ColumnOptions
    /\ validationConfig.idCol \in {DefaultValidationConfig.idCol} \cup ColumnOptions
    /\ validationConfig.emailCol \in {DefaultValidationConfig.emailCol} \cup ColumnOptions

KeySet(row) == {row[j][1] : j \in 1..Len(row)}

\* The keys on which two rows differ.
DifferingKeys(old, new) ==
    {k \in KeySet(old) \cup KeySet(new) : Get(new, k) # Get(old, k)}

\* The table differs from the table before the step in row i alone, and
\* there in one field.
OnlyRowChanged(i) ==
    /\ Len(data') = Len(data)
    /\ \A j \in 1..Len(data) : j # i => data'[j] = data[j]
    /\ Cardinality(DifferingKeys(data[i], data'[i])) = 1
    /\ DifferingKeys(data[i], data'[i]) \subseteq ColumnOptions

\* C29: a cell edit changes one field of the row that the page shows at the
\* edited position, under whatever filter and sort the view has, and leaves
\* every other row, the order of the rows, the columns and the history as
\* they were; an undo after it gives the table of the newest snapshot.
CellEditChangesOneField ==
    [][/\ lastOp' = "handleCellEdit" =>
            /\ OnlyRowChanged(paginatedData[edited'[Len(edited')]])
            /\ history' = history
            /\ columns' = columns
       /\ UndoStep /\ outcome' = "done" => data' = history[Len(history)].data]_vars

\* The page shows the two rows of equal content under a filter and a sort,
\* and the second of them has been edited: the last row of the table is no
\* longer RowB, the first still is.
EditedSecondTwin ==
    /\ lastOp = "handleCellEdit"
    /\ Len(data) = 4
    /\ data[1] = RowB
    /\ data[4] # RowB
    /\ debouncedSearch # <<>>
    /\ sortConfig # NullSortConfig

\* C30: a restricted action runs only with the lead captured; and while the
\* lead modal is not shown (never opened, or dismissed), no step marks the
\* lead captured, and with the lead not captured no step runs an action.
RestrictedActionsGated ==
    [][/\ executed' # executed => isLeadCaptured'
       /\ ~ showLeadGen => isLeadCaptured' = isLeadCaptured
       /\ ~ showLeadGen /\ ~ isLeadCaptured => executed' = executed]_vars

====
